---- MODULE Spec2Model ----
(***************************************************************************)
(* A model of the overlay core of the repository: the scored connection   *)
(* (Vibe), the agent that owns a collection of them (Sprite), and the      *)
(* directory service (Gaia).                                               *)
(*                                                                         *)
(* Time is a global integer clock `now` (Date.now() / performance.now()),  *)
(* advanced by Tick.  A Vibe object is a number in VibeIds; the fields of  *)
(* the object are functions over VibeIds.  The Ensemble `sprite.vibes` is  *)
(* the sequence `players` of the Vibes it currently holds, in insertion    *)
(* order, each under the name vname[v].                                    *)
(***************************************************************************)
EXTENDS Integers, Sequences, FiniteSets, TLC

\* ------------------------------------------------------------------ bounds
MaxVibes == 2          \* Vibe objects constructed in one behaviour
MaxTime == 2           \* last value of the clock
MaxPings == 2          \* ping() calls in one behaviour
Connectivity == 1      \* opts.connectivity
Beat == 1              \* opts.beat, in clock ticks
PingTimeout == 1       \* the timeout argument of ping(), in clock ticks
MaxPath == 3           \* keys of an array path, characters of a string path
MaxLen == 2            \* characters of a user id or of a sprite name

\* -------------------------------------------------------------- constants
NegInf == -1000        \* stands for -Infinity: below every finite value
None == 0              \* stands for undefined (an absent field)
PeerPingId == 9        \* the id of a ping that the peer originates
Infinity == 1000000000 \* stands for Infinity: above every finite number
NaN == -1000000001     \* stands for NaN: every comparison with it is false
NoNumber == -1000000002 \* stands for undefined where a number is expected
DegreeMetres == 111195 \* metres of one degree of a meridian: R * PI / 180

VibeIds == 1..MaxVibes
PingIds == 1..MaxPings
PeerSeq == <<"alice:main", "bob:main", "carol:main">>
PeerIds == {PeerSeq[i] : i \in 1..Len(PeerSeq)}
NoName == ""           \* the name of a Vibe that is in no Ensemble
CtorValues == {1, 3, 5}
AppPayloads == {7}

VARIABLES
    players,       \* sprite.vibes.players: the Vibes held, in insertion order
    rr,            \* round-robin pointer of sprite.vibes (an index of players)
    nVibes,        \* number of Vibe objects constructed so far
    vname,         \* vibe.name: the key under which the Vibe was added
    value,         \* vibe.value
    lastActive,    \* vibe.lastActive
    muted,         \* vibe.muted
    conn,          \* state of the connection the Vibe wraps
    sent,          \* messages handed to the connection of each Vibe
    nPings,        \* number of ping() calls made so far
    pings,         \* the ping() calls: Vibe, start time, state, listener
    now,           \* the clock
    last,          \* the operation that ran last, and what it returned
    rotLog         \* the Vibes the send() calls selected, in order, since
                   \* the collection last changed

VARIABLES
    users,         \* gaia.users: user id -> payload
    sprites,       \* gaia.sprites: sprite id -> payload
    vibes,         \* gaia.vibes: sprite id -> ids of the sprites it targets
    res,           \* the response to the HTTP request handled last
    gcall          \* the call of update or img made last on the Gaia: its
                   \* arguments, the maps before it and what it returned

VARIABLES
    auras,         \* sprite.auras: the names of the feeds added to the Sprite
    hasTarget,     \* whether the field `target` of the GaiaAura is a Sprite
    nodeToken,     \* node.token of the Node that owns the Sprite
    gaiaImg,       \* gaiaAura.gaiaImg: the image refreshGaiaImg fetched last
    opts,          \* gaiaAura.opts.gaia
    alast,         \* what the feed operation that ran last did
    unowned        \* whether a connection the HttpAura was handed is open and
                   \* wrapped by no Vibe

VARIABLES
    nodeOpts,      \* node.opts: which of token.url, token.beat, self.url and
                   \* self.beat the configuration of the Node has
    built,         \* how the constructor of the Node ended
    scheduled,     \* the names of the periodic tasks that were started
    inflight,      \* of each task, the invocations that have not ended
    tlast          \* the last event of the periodic tasks

VARIABLES
    asked          \* the static helper of Sprite called last, its arguments
                   \* and what it returned

VARIABLES
    root,          \* navigator.root: the object the ObjNavigator wraps
    nlast          \* the call made last on the navigator, the object before
                   \* it and what it returned

VARIABLES
    storeData,     \* optionStore.data: class name -> (key -> value)
    lastSet,       \* of each class and key, the value set() was given last
    olast          \* the call made last on the OptionStore

spriteVars == <<players, rr, nVibes, vname, value, lastActive, muted, conn,
                sent, nPings, pings, now, last, rotLog>>
gaiaVars == <<users, sprites, vibes, res, gcall>>
auraVars == <<auras, hasTarget, nodeToken, gaiaImg, opts, alast, unowned>>
taskVars == <<nodeOpts, built, scheduled, inflight, tlast>>
callVars == <<asked>>
navVars == <<root, nlast>>
storeVars == <<storeData, lastSet, olast>>
otherVars == <<taskVars, callVars, navVars, storeVars>>
vars == <<players, rr, nVibes, vname, value, lastActive, muted, conn, sent,
          nPings, pings, now, last, rotLog, users, sprites, vibes, res,
          gcall, auras, hasTarget, nodeToken, gaiaImg, opts, alast,
          nodeOpts, built, scheduled, inflight, tlast, asked, unowned,
          root, nlast, storeData, lastSet, olast>>

Range(s) == {s[i] : i \in 1..Len(s)}

Created == 1..nVibes

\* A message as JSON.stringify writes it: an undefined field is absent (None).
Msg(t, i, pid, pl) == [type |-> t, id |-> i, pingId |-> pid, payload |-> pl]

\* What an operation did: its name, the Vibe and the ping() call it was about,
\* how it ended, and a count it produced.
Op(name, v, p, result, n) ==
    [op |-> name, vibe |-> v, ping |-> p, result |-> result, n |-> n]

\* ---------------------------------------------------------------- Ensemble
\* Index of the player held under `name`, 0 when there is none.
IndexOf(ps, name) ==
    IF \E i \in 1..Len(ps) : vname[ps[i]] = name
    THEN CHOOSE i \in 1..Len(ps) : vname[ps[i]] = name
    ELSE 0

\* ensemble.add(name, player): a Map entry; a name already present keeps its
\* position and gets the new player.
EnsembleAdd(ps, name, v) ==
    LET i == IndexOf(ps, name)
    IN IF i = 0 THEN Append(ps, v) ELSE [ps EXCEPT ![i] = v]

\* ensemble.remove(name): drops the player held under that name.
EnsembleRemove(ps, name) ==
    LET i == IndexOf(ps, name)
    IN IF i = 0 THEN ps
       ELSE SubSeq(ps, 1, i - 1) \o SubSeq(ps, i + 1, Len(ps))

\* ensemble.rotate(): advances the round-robin pointer by one position.
rotate(ptr, n) == (ptr % n) + 1

\* ------------------------------------------------------------------- Vibe
\* Vibe.isActive(maxAllowedInactivity, now)
isActiveOneMore(v, maxAllowedInactivity, t) ==
    lastActive[v] + maxAllowedInactivity + 1 >= t
isActive(v, maxAllowedInactivity, t) == lastActive[v] + maxAllowedInactivity >= t

\* The states of a connection: open; closing, that is closed by close(code,
\* reason) of this side ("inactive socket") or by the other side, the close
\* event not yet delivered; closed.
Closing == {"closing", "inactive socket"}

\* ws.send(data): whether the call throws.  An open connection takes the data;
\* one that is not open throws or drops the data, as the transport decides.
wsSendThrows(v) == IF conn[v] = "open" THEN {FALSE} ELSE {TRUE, FALSE}

\* Inbound data of a "message" event.  raw tells what Vibe.json makes of it:
\* "json" parses to the message, "invalid" is a string that is no JSON
\* (JSON.parse throws), "binary" is not a string (Vibe.json returns undefined).
Data(raw, t, i, pid, pl) ==
    [raw |-> raw, type |-> t, id |-> i, pingId |-> pid, payload |-> pl]

\* The ping the peer's ping() sends, a ping that carries its id as pingId,
\* the pong of the peer to one of our pings, an application message, and the
\* two kinds of data that are no JSON text.
PeerData ==
    {Data("json", "ping", PeerPingId, None, None),
     Data("json", "ping", None, PeerPingId, None),
     Data("json", "app", None, None, 7),
     Data("invalid", "", None, None, None),
     Data("binary", "", None, None, None)}
    \cup {Data("json", "pong", None, p, None) : p \in 1..nPings}

\* Data whose handling differs for the Sprite only by whether it is activity.
PlainData ==
    {Data("json", "app", None, None, 7), Data("invalid", "", None, None, None)}

\* Vibe.json(data) throws
jsonThrows(data) == data.raw = "invalid"

\* messageCue reaches `this.lastActive = Date.now()`
cueTouches(data) == ~jsonThrows(data)

\* messageCue calls this.pong(undefined, json.pingId)
cuePongs(data) ==
    /\ data.raw = "json"
    /\ data.type = "ping" /\ data.payload = None /\ data.pingId # None

\* Vibe.pong(pingId, payload): the message it sends
pong(pingId, payload) == Msg("pong", None, pingId, payload)

\* isResponse(evt, data) of ping p throws: Vibe.json throws, or json is
\* undefined and json.type throws.
isResponseThrows(data) == data.raw # "json"

\* isResponse(evt, data) of ping p
isResponseAny(p, data) == data.raw = "json" /\ data.type = "pong"
isResponse(p, data) ==
    data.raw = "json" /\ data.type = "pong" /\ data.pingId = p

\* The ping() calls of Vibe v whose listener is on the connection.
Listening(v) == {p \in 1..nPings : pings[p].vibe = v /\ pings[p].listening}

\* when(predicate, emitter, event, timeout) settles: the listener is taken
\* off the emitter.
Settle(rec, st) ==
    [rec EXCEPT !.st = st, !.listening = FALSE, !.dereg = @ + 1]

\* .else(() => (this.value = -Infinity)): a failure of the exchange ends in
\* the value being set and ping() resolving.
ElseRethrows(v) == [value |-> value[v], outcome |-> "raised"]
Else(v) == [value |-> NegInf, outcome |-> "resolved"]

\* ping() call `rec` ends: by a response (`st` = "matched") or by a failure.
Ended(rec, st) ==
    [rec EXCEPT !.outcome = IF st = "matched" THEN "resolved"
                            ELSE Else(rec.vibe).outcome]

\* Vibe.eval(start)
evalSignSlip(start) == now - start
eval(start) == -(now - start)

\* The "message" event of the connection of Vibe v: messageCue, then the
\* listeners of the pending ping() calls.  When messageCue throws, the
\* listeners registered after it may or may not be called (seen).
messageCue(v, data, seen) ==
    /\ v \in Created
    /\ conn[v] = "open"
    /\ seen \subseteq Listening(v)
    /\ (~isResponseThrows(data)) => seen = Listening(v)
    /\ LET failed == IF isResponseThrows(data) THEN seen ELSE {}
           matched == {p \in seen : isResponse(p, data)}
       IN /\ lastActive' = [lastActive EXCEPT ![v] =
                               IF cueTouches(data) THEN now ELSE @]
          /\ sent' = [sent EXCEPT ![v] =
                        IF cuePongs(data)
                        THEN @ \cup {pong(None, data.pingId)} ELSE @]
          /\ pings' = [p \in PingIds |->
                         IF p \in failed
                         THEN Ended(Settle(pings[p], "failed"), "failed")
                         ELSE IF p \in matched
                         THEN Ended(Settle(pings[p], "matched"), "matched")
                         ELSE pings[p]]
          /\ value' = [value EXCEPT ![v] =
                         IF failed # {} THEN Else(v).value
                         ELSE IF matched # {}
                              THEN eval(pings[CHOOSE p \in matched : TRUE].start)
                              ELSE @]
          /\ last' = Op("message", v,
                        IF matched # {} THEN CHOOSE p \in matched : TRUE
                        ELSE IF failed # {} THEN CHOOSE p \in failed : TRUE
                        ELSE IF data.type = "pong" THEN data.pingId
                        ELSE None,
                        IF matched # {} THEN "matched"
                        ELSE IF failed # {} THEN "failed" ELSE "none",
                        IF cuePongs(data) THEN 1 ELSE 0)
    /\ UNCHANGED <<players, rr, nVibes, vname, muted, conn, nPings, now, rotLog>>
    /\ UNCHANGED <<gaiaVars, auraVars, otherVars>>

\* Vibe.ping(payload, timeout): the request is sent and the listener put on
\* the connection; a send that throws is taken by else().
ping(v) ==
    /\ v \in Created
    /\ conn[v] # "closed"
    /\ nPings < MaxPings
    /\ \E throws \in wsSendThrows(v) :
       LET p == nPings + 1
       IN /\ nPings' = p
          /\ IF throws
             THEN /\ pings' = [pings EXCEPT ![p] =
                                 [vibe |-> v, start |-> now, st |-> "sendFailed",
                                  listening |-> FALSE, dereg |-> 0,
                                  outcome |-> Else(v).outcome]]
                  /\ value' = [value EXCEPT ![v] = Else(v).value]
                  /\ sent' = sent
                  /\ last' = Op("ping", v, p, "sendFailed", 0)
             ELSE /\ pings' = [pings EXCEPT ![p] =
                                 [vibe |-> v, start |-> now, st |-> "waiting",
                                  listening |-> TRUE, dereg |-> 0,
                                  outcome |-> "pending"]]
                  /\ value' = value
                  /\ sent' = [sent EXCEPT ![v] = @ \cup {Msg("ping", p, None, None)}]
                  /\ last' = Op("ping", v, p, "pending", 0)
    /\ UNCHANGED <<players, rr, nVibes, vname, lastActive, muted, conn, now,
                   rotLog>>
    /\ UNCHANGED <<gaiaVars, auraVars, otherVars>>

\* The timer of when(): no response within the timeout; else() sets the value.
pingTimeout(p) ==
    /\ p \in 1..nPings
    /\ pings[p].listening
    /\ now - pings[p].start >= PingTimeout
    /\ pings' = [pings EXCEPT ![p] = Ended(Settle(@, "timedOut"), "timedOut")]
    /\ value' = [value EXCEPT ![pings[p].vibe] = Else(pings[p].vibe).value]
    /\ last' = Op("timeout", pings[p].vibe, p, "timedOut", 0)
    /\ UNCHANGED <<players, rr, nVibes, vname, lastActive, muted, conn, sent,
                   nPings, now, rotLog>>
    /\ UNCHANGED <<gaiaVars, auraVars, otherVars>>

\* --------------------------------------------------------------- Sprite
\* ORDER.DESCENDING applied to two Vibes: negative when a goes first.
Descending(a, b) == value[b] - value[a]

\* SortedArray.add(item): inserted in sorted position unless an equivalent
\* item (comparator = 0) is already there.
SortedAdd(sorted, item) ==
    IF \E j \in 1..Len(sorted) : Descending(sorted[j], item) = 0
    THEN sorted
    ELSE LET k == Cardinality({j \in 1..Len(sorted) : Descending(sorted[j], item) < 0})
         IN SubSeq(sorted, 1, k) \o <<item>> \o SubSeq(sorted, k + 1, Len(sorted))

\* new SortedArray(ORDER.DESCENDING).letAll(items)
RECURSIVE letAll(_, _)
letAll(sorted, items) ==
    IF items = <<>> THEN sorted
    ELSE letAll(SortedAdd(sorted, Head(items)), Tail(items))

\* sorted.select(n): keeps the first n items, returns the others.
select(sorted, n) == SubSeq(sorted, n + 1, Len(sorted))

\* The Vibes refreshVibes closes: those of the collection that are inactive.
Inactive == {v \in Range(players) : ~isActive(v, Beat, now)}

\* The Vibes refreshVibes mutes.
DiscardedOneMore ==
    IF Connectivity < Len(players)
    THEN Range(select(letAll(<<>>, players), Connectivity + 1))
    ELSE {}
Discarded ==
    IF Connectivity < Len(players)
    THEN Range(select(letAll(<<>>, players), Connectivity))
    ELSE {}

\* Sprite.refreshVibes()
refreshVibes ==
    /\ conn' = [v \in VibeIds |->
                  IF v \in Inactive /\ conn[v] = "open" THEN "inactive socket"
                  ELSE conn[v]]
    /\ muted' = [v \in VibeIds |-> muted[v] \/ v \in Discarded]
    /\ last' = Op("refreshVibes", None, None, "done",
                  Cardinality({v \in Discarded : ~muted[v]}))
    /\ UNCHANGED <<players, rr, nVibes, vname, value, lastActive, sent, nPings,
                   pings, now, rotLog>>
    /\ UNCHANGED <<gaiaVars, auraVars, otherVars>>

\* new Vibe(ws, value); sprite.vibes.add(name, vibe) on an accepted connection
AddVibe(name, val) ==
    /\ nVibes < MaxVibes
    /\ LET v == nVibes + 1
       IN /\ nVibes' = v
          /\ vname' = [vname EXCEPT ![v] = name]
          /\ value' = [value EXCEPT ![v] = val]
          /\ lastActive' = [lastActive EXCEPT ![v] = now]
          /\ muted' = [muted EXCEPT ![v] = FALSE]
          /\ conn' = [conn EXCEPT ![v] = "open"]
          /\ players' = EnsembleAdd(players, name, v)
          /\ last' = Op("add", v, None, "done", 0)
    /\ rotLog' = <<>>
    /\ UNCHANGED <<rr, sent, nPings, pings, now>>
    /\ UNCHANGED <<gaiaVars, auraVars, otherVars>>

\* The transport or the peer ends the connection of a Vibe.
TransportClose(v) ==
    /\ v \in Created
    /\ conn[v] = "open"
    /\ conn' = [conn EXCEPT ![v] = "closing"]
    /\ last' = Op("transportClose", v, None, "done", 0)
    /\ UNCHANGED <<players, rr, nVibes, vname, value, lastActive, muted, sent,
                   nPings, pings, now, rotLog>>
    /\ UNCHANGED <<gaiaVars, auraVars, otherVars>>

\* Sprite.onClose(..., vibe): the close event of the connection of v.  After
\* it nothing refers to the Vibe any more (its connection is closed and it is
\* in no collection), so the fields of the dead object are cleared.
onClose(v) ==
    /\ v \in Created
    /\ conn[v] \in Closing
    /\ conn' = [conn EXCEPT ![v] = "closed"]
    /\ players' = EnsembleRemove(players, vname[v])
    /\ value' = [value EXCEPT ![v] = 0]
    /\ lastActive' = [lastActive EXCEPT ![v] = 0]
    /\ muted' = [muted EXCEPT ![v] = FALSE]
    /\ sent' = [sent EXCEPT ![v] = {}]
    /\ vname' = [vname EXCEPT ![v] = NoName]
    /\ last' = Op("onClose", v, None, conn[v], 0)
    /\ rotLog' = IF players' = players THEN rotLog ELSE <<>>
    /\ UNCHANGED <<rr, nVibes, nPings, pings, now>>
    /\ UNCHANGED <<gaiaVars, auraVars, otherVars>>

\* The predicates a caller of send() passes: the default, and one on the value.
Predicates == {"any", "valueAtLeast3"}
predicate(pred, v) == pred = "any" \/ value[v] >= 3

\* Sprite.send: what the call does with the Vibe it selected
sendOutcomeIgnoresMute(v, pred, throws) ==
    IF ~predicate(pred, v) THEN "onRejectError"
    ELSE IF throws THEN "TransportError"
    ELSE "true"
sendOutcome(v, pred, throws) ==
    IF muted[v] THEN "Error: Selected Vibe is muted"
    ELSE IF ~predicate(pred, v) THEN "onRejectError"
    ELSE IF throws THEN "TransportError"
    ELSE "true"

\* Sprite.send: the position of the Vibe that `this.vibes.rotate()` returns
SelectedNoAdvance == IF rr = 0 THEN 1 ELSE ((rr - 1) % Len(players)) + 1
Selected == rotate(rr, Len(players))

\* Sprite.send(msg, predicate, error)
send(msg, pred) ==
    /\ IF Len(players) = 0
       THEN /\ last' = Op("send", None, None, "TypeError", 0)
            /\ UNCHANGED <<rr, sent, rotLog>>
       ELSE \E throws \in wsSendThrows(players[Selected]) :
            LET ptr == Selected
                v == players[ptr]
                outcome == sendOutcome(v, pred, throws)
                log == Append(rotLog, v)
            IN /\ rr' = ptr
               /\ last' = Op("send", v, None, outcome, 0)
               /\ sent' = IF outcome = "true"
                          THEN [sent EXCEPT ![v] = @ \cup {Msg("app", None, None, msg)}]
                          ELSE sent
               /\ rotLog' = IF Len(log) > 2 * Len(players) THEN Tail(log) ELSE log
    /\ UNCHANGED <<players, nVibes, vname, value, lastActive, muted, conn,
                   nPings, pings, now>>
    /\ UNCHANGED <<gaiaVars, auraVars, otherVars>>

Tick ==
    /\ now < MaxTime
    /\ now' = now + 1
    /\ last' = Op("tick", None, None, "done", 0)
    /\ UNCHANGED <<players, rr, nVibes, vname, value, lastActive, muted, conn,
                   sent, nPings, pings, rotLog>>
    /\ UNCHANGED <<gaiaVars, auraVars, otherVars>>

\* ------------------------------------------------------------------- Gaia
\* A string is the sequence of its pieces; the piece Sep is the character ":".
Sep == ":"
Alice == <<"alice">>
Bob == <<"bob">>
Main == <<"main">>
NoString == <<"undefined">>

\* Sprite.id(user, name)
idNoSep(user, name) == user \o name
id(user, name) == user \o <<Sep>> \o name

\* string.split(":")
RECURSIVE split(_)
split(s) ==
    IF \A i \in 1..Len(s) : s[i] # Sep
    THEN <<s>>
    ELSE LET i == CHOOSE i \in 1..Len(s) :
                      s[i] = Sep /\ \A j \in 1..(i - 1) : s[j] # Sep
         IN <<SubSeq(s, 1, i - 1)>> \o split(SubSeq(s, i + 1, Len(s)))

\* Sprite.parseId(id)
parseId(sid) ==
    LET parts == split(sid)
    IN [user |-> parts[1],
        name |-> IF Len(parts) >= 2 THEN parts[2] ELSE NoString]

\* An object used as a map: a function over the keys it has.
EmptyMap == [k \in {} |-> 0]
Maps(K, V) == UNION {[D -> V] : D \in SUBSET K}

\* Object.assign(target, source)
assignReplace(target, source) == source
assign(target, source) ==
    [k \in DOMAIN target \cup DOMAIN source |->
        IF k \in DOMAIN source THEN source[k] ELSE target[k]]

\* What the directory may know: two users, one sprite of each, on a meridian.
GaiaUserIds == {Alice, Bob}
SpriteIds == {id(Alice, Main), id(Bob, Main)}
UserPayloads == {"machines"}
SpritePayloads ==
    {[long |-> 0, lat |-> 0, url |-> "ws://a"],
     [long |-> 0, lat |-> 1, url |-> "ws://b"],
     [long |-> 0, lat |-> 1, url |-> ""]}
TargetLists == {<<>>, <<id(Bob, Main)>>, <<id(Alice, Main), id(Bob, Main)>>}

\* An image: users, sprites and vibes.  `kind` is what typeof says of it.
Image(kind, u, s, v) == [kind |-> kind, users |-> u, sprites |-> s, vibes |-> v]

\* `this`: the Gaia object, which has the three maps as fields.
GaiaObject == Image("object", users, sprites, vibes)

\* `this.img`: the method img of the Gaia object, a function.
ThisImg == Image("function", EmptyMap, EmptyMap, EmptyMap)

\* Gaia.update(img, {users, sprites, vibes}): the image merged, or the error.
update(img, partial) ==
    IF img.kind # "object"
    THEN [threw |-> TRUE,
          error |-> "Gaia.update() requires a valid image object as first argument",
          img |-> img]
    ELSE [threw |-> FALSE,
          error |-> "",
          img |-> Image(img.kind,
                        assign(img.users, partial.users),
                        assign(img.sprites, partial.sprites),
                        assign(img.vibes, partial.vibes))]

isFinite(x) == x \notin {NaN, NoNumber, Infinity, -Infinity}
Number(x) == IF x = NoNumber THEN NaN ELSE x
Abs(x) == IF x < 0 THEN -x ELSE x

\* Gaia.dist(a, b), for two points of one meridian: R * |b.lat - a.lat| in
\* radians.  A missing coordinate makes it NaN.
dist(a, b) ==
    IF \E x \in {a[1], a[2], b[1], b[2]} : x \in {NaN, NoNumber}
    THEN NaN
    ELSE DegreeMetres * Abs(b[2] - a[2])

\* a <= b of two numbers
lessOrEqual(a, b) == a # NaN /\ b # NaN /\ a <= b

\* a < b of two numbers
lessThan(a, b) == a # NaN /\ b # NaN /\ a < b

\* The keys of a map as an array, as Object.keys(map) lists them.
RECURSIVE SetToSeq(_)
SetToSeq(D) ==
    IF D = {} THEN <<>>
    ELSE LET k == CHOOSE k \in D : TRUE
         IN <<k>> \o SetToSeq(D \ {k})

\* Gaia.sample(entries, n): the arrays of entries the draws may come to.  When
\* there are more than n entries, each of n draws takes any of them.
sampleAll(entries, n) == {entries}
sample(entries, n) ==
    IF n # NaN /\ Len(entries) <= n
    THEN {entries}
    ELSE IF n = NaN \/ n <= 0
         THEN {<<>>}
         ELSE [1..n -> Range(entries)]

\* Gaia.img: the entries within the circle, all of them when the centre or the
\* radius is not finite.
imgLocatedAlways(S, long, lat, radius) ==
    SetToSeq({k \in DOMAIN S :
                lessThan(dist(<<long, lat>>, <<S[k].long, S[k].lat>>), radius)})
imgLocated(S, long, lat, radius) ==
    IF isFinite(long) /\ isFinite(lat) /\ isFinite(radius)
    THEN SetToSeq({k \in DOMAIN S :
                    lessThan(dist(<<long, lat>>, <<S[k].long, S[k].lat>>), radius)})
    ELSE SetToSeq(DOMAIN S)

\* Gaia.img: the entries that have a url, when requireUrl is set.
imgServed(S, entries, requireUrl) ==
    IF requireUrl
    THEN SetToSeq({k \in Range(entries) : S[k].url # ""})
    ELSE entries

\* The argument targets of a call that gives none: undefined, not an array.
NoTargets == {NoString}

\* Gaia.img: the entries with a vibe towards one of the targets, when targets
\* is an array and is not empty.
imgTargetedById(V, entries, targets) ==
    IF targets # NoTargets /\ targets # {}
    THEN SetToSeq({k \in Range(entries) :
            LET vs == IF k \in DOMAIN V THEN V[k] ELSE <<>>
            IN \E i \in 1..Len(vs) : vs[i] \in targets})
    ELSE entries
imgTargeted(V, entries, targets) ==
    IF targets # NoTargets /\ targets # {}
    THEN SetToSeq({k \in Range(entries) :
            LET vs == IF k \in DOMAIN V THEN V[k] ELSE <<>>
            IN \E i \in 1..Len(vs) :
                    vs[i] \in targets \/ parseId(vs[i]).user \in targets})
    ELSE entries

\* Gaia.img: the vibes whose source is one of the sprites chosen.
imgVibesAll(V, chosen) == V
imgVibesAmongChosen(V, chosen) ==
    [k \in DOMAIN V \cap chosen |-> SelectSeq(V[k], LAMBDA t : t \in chosen)]
imgVibes(V, chosen) == [k \in DOMAIN V \cap chosen |-> V[k]]

\* Gaia.img: the known users among the owners of the sprites chosen and of
\* the targets of their vibes.
imgUsers(U, chosen, vs) ==
    LET userIds == {parseId(k).user : k \in chosen} \cup
                   UNION {{parseId(vs[k][i]).user : i \in 1..Len(vs[k])} :
                            k \in DOMAIN vs}
    IN [u \in userIds \cap DOMAIN U |-> U[u]]

\* Gaia.img: the entries that pass the filters, before sampling.
imgEntries(S, V, long, lat, radius, requireUrl, targets) ==
    imgTargeted(V, imgServed(S, imgLocated(S, long, lat, radius), requireUrl),
                targets)

\* gaia.img([long, lat], radius, sample, requireUrl, targets) over the maps
\* U, S, V: the snapshots it may return.
img(U, S, V, long, lat, radius, n, requireUrl, targets) ==
    LET entries == imgEntries(S, V, long, lat, radius, requireUrl, targets)
        snapshot(chosen) ==
            LET vs == imgVibes(V, chosen)
            IN [users |-> imgUsers(U, chosen, vs),
                sprites |-> [k \in chosen |-> S[k]],
                vibes |-> vs]
    IN {snapshot(Range(draws)) : draws \in sample(entries, n)}

EmptyImg == [users |-> EmptyMap, sprites |-> EmptyMap, vibes |-> EmptyMap]

\* The arguments of gaia.img(), and those of a call that gives none.
ImgArgs(long, lat, radius, n, requireUrl, targets) ==
    [long |-> long, lat |-> lat, radius |-> radius, n |-> n,
     requireUrl |-> requireUrl, targets |-> targets]
NoArgs == ImgArgs(NoNumber, NoNumber, Infinity, Infinity, FALSE, NoTargets)

\* A call on the Gaia: its name, the partial image or the arguments it was
\* given, the maps before it, and the snapshot it returned.
GaiaCall(op, body, args, before, out) ==
    [op |-> op, body |-> body, args |-> args, before |-> before, out |-> out]
NoCall == GaiaCall("none", EmptyImg, NoArgs, EmptyImg, EmptyImg)
Response(status, error, body) == [status |-> status, error |-> error, img |-> body]

\* The requests that reach the HTTP server.
Bodies ==
    {[users |-> EmptyMap, sprites |-> EmptyMap, vibes |-> EmptyMap],
     [users |-> EmptyMap,
      sprites |-> [k \in {id(Alice, Main)} |-> [long |-> 0, lat |-> 0, url |-> "ws://a"]],
      vibes |-> EmptyMap],
     [users |-> [k \in {Bob} |-> "machines"],
      sprites |-> [k \in {id(Bob, Main)} |-> [long |-> 0, lat |-> 1, url |-> ""]],
      vibes |-> [k \in {id(Bob, Main)} |-> <<id(Alice, Main)>>]]}
Queries ==
    [long : {NoNumber, 0}, lat : {0}, radius : {NoNumber, 50000},
     sample : {NoNumber, 1}, requireUrl : {"", "true", "false"},
     targets : {NoTargets, {Bob}}]
WellFormed ==
    [url : {"/gaia/img"}, method : {"POST"}, accept : {"application/json"},
     bodyParses : {TRUE}, queryParses : {TRUE}, body : Bodies, query : Queries]
Malformed ==
    LET req == CHOOSE r \in WellFormed : TRUE
    IN {[req EXCEPT !.url = "/other"], [req EXCEPT !.method = "GET"],
        [req EXCEPT !.accept = "text/html"], [req EXCEPT !.bodyParses = FALSE],
        [req EXCEPT !.queryParses = FALSE]}
Requests == WellFormed \cup Malformed

\* Gaia.resolveImgRequest: the query parsed and this.img(...) called on it
imgOfQuery(U, S, V, query) ==
    LET long == Number(query.long)
        lat == Number(query.lat)
        radius == Number(IF query.radius = NoNumber THEN Infinity ELSE query.radius)
        n == Number(IF query.sample = NoNumber THEN Infinity ELSE query.sample)
        requireUrl == query.requireUrl # "" /\ query.requireUrl # "false"
    IN img(U, S, V, long, lat, radius, n, requireUrl, query.targets)

\* A handler that merges the body into the maps and then fails.
resolveImgRequestMerging(req) ==
    /\ users' = assign(users, req.body.users)
    /\ sprites' = assign(sprites, req.body.sprites)
    /\ vibes' = assign(vibes, req.body.vibes)
    /\ res' = Response(500, "Internal server error", EmptyImg)

\* Gaia.resolveImgRequest({req, res}): update(this.img, body) merges into the
\* object it is given, which is the method img and not the Gaia object.
resolveImgRequest(req) ==
    LET merged == update(ThisImg, req.body)
    IN IF merged.threw
       THEN /\ res' = Response(500, merged.error, EmptyImg)
            /\ UNCHANGED <<users, sprites, vibes>>
       ELSE /\ UNCHANGED <<users, sprites, vibes>>
            /\ \E snap \in imgOfQuery(users, sprites, vibes, req.query) :
                    res' = Response(200, "", snap)

\* Gaia.handleImgRequest(req, res): the HttpHandler chain.
handleImgRequestUnchecked(req) == resolveImgRequest(req)
handleImgRequest(req) ==
    IF /\ req.method = "POST"
       /\ req.accept = "application/json"
       /\ req.bodyParses
       /\ req.queryParses
    THEN resolveImgRequest(req)
    ELSE /\ res' = Response(400, "Bad request", EmptyImg)
         /\ UNCHANGED <<users, sprites, vibes>>

\* Gaia.handleRequest(req, res), on the "request" event of the HTTP server
handleRequest(req) ==
    /\ IF req.url = "/gaia/img"
       THEN handleImgRequest(req)
       ELSE UNCHANGED <<users, sprites, vibes, res>>
    /\ UNCHANGED gcall
    /\ UNCHANGED <<spriteVars, auraVars, otherVars>>

\* Gaia.update(gaia, partial), called by the program that embeds the Gaia
GaiaUpdate(partial) ==
    LET merged == update(GaiaObject, partial)
    IN /\ ~merged.threw
       /\ users' = merged.img.users
       /\ sprites' = merged.img.sprites
       /\ vibes' = merged.img.vibes
       /\ gcall' = GaiaCall("update", partial, NoArgs,
                            [users |-> users, sprites |-> sprites, vibes |-> vibes],
                            EmptyImg)
       /\ UNCHANGED res
       /\ UNCHANGED <<spriteVars, auraVars, otherVars>>

\* The calls of gaia.img() of the program that embeds the Gaia: with a circle
\* round the point 0, 0; with part of a circle; with targets, once an empty
\* array; with a sample size; restricted to servers; with all of them; with
\* nothing.
ImgCalls ==
    {ImgArgs(0, 0, r, NoNumber, FALSE, NoTargets) : r \in {1, 50000, DegreeMetres, 150000}}
    \cup {ImgArgs(NoNumber, 0, 50000, NoNumber, FALSE, NoTargets),
          ImgArgs(0, NoNumber, 50000, NoNumber, FALSE, NoTargets),
          ImgArgs(0, 0, NoNumber, NoNumber, FALSE, NoTargets),
          ImgArgs(0, 0, NaN, NoNumber, FALSE, NoTargets)}
    \cup {ImgArgs(NoNumber, NoNumber, NoNumber, NoNumber, FALSE, t) :
            t \in {{Bob}, {Alice}, {id(Bob, Main)}, {}}}
    \cup {ImgArgs(NoNumber, NoNumber, NoNumber, n, FALSE, NoTargets) : n \in {0, 1, 2}}
    \cup {ImgArgs(NoNumber, NoNumber, NoNumber, NoNumber, TRUE, NoTargets),
          ImgArgs(0, 0, 150000, 1, TRUE, {Bob}),
          ImgArgs(NoNumber, NoNumber, NoNumber, NoNumber, FALSE, NoTargets)}

\* A parameter with a default value: the default when the argument is undefined
Default(x, d) == IF x = NoNumber THEN d ELSE x

\* gaia.img([long, lat], radius, sample, requireUrl, targets), called by the
\* program that embeds the Gaia
GaiaImg(args) ==
    /\ \E snap \in img(users, sprites, vibes, args.long, args.lat,
                       Default(args.radius, Infinity), Default(args.n, Infinity),
                       args.requireUrl, args.targets) :
            gcall' = GaiaCall("img", EmptyImg, args,
                              [users |-> users, sprites |-> sprites, vibes |-> vibes],
                              snap)
    /\ UNCHANGED <<users, sprites, vibes, res>>
    /\ UNCHANGED <<spriteVars, auraVars, otherVars>>

\* ------------------------------------------------------------------ Aura
\* The Sprite the feeds are for, and the peers the Gaia may tell of.
Self == "me:main"
FeedIds == {Self, "bob:main", "carol:main"}
NoId == ""             \* a token payload without an id
NoToken == ""          \* node.token before the first refresh
Tokens == {"tok"}
GaiaFeed == "gaia"     \* the name under which the GaiaAura is added
HttpFeed == "http"     \* the name under which the HttpAura is added
SampleOpts == {0, 1, 2}

\* get sprite(): the Sprite whose `auras` holds this feed, undefined (FALSE)
\* when no Sprite holds it.
sprite(feed) == feed \in auras

\* get token(): this.sprite?.node?.token
token == IF sprite(GaiaFeed) THEN nodeToken ELSE NoToken

\* !this.token
tokenNeverMissing(tok) == FALSE
tokenMissing(tok) == tok = NoToken

\* An image as the feed receives it: the payload of each sprite by id; of the
\* payload the feed reads the url.  `known` is false of undefined.
FeedImg(known, S) == [known |-> known, sprites |-> S]
NoFeedImg == FeedImg(FALSE, [k \in {} |-> ""])
FeedImgs ==
    {FeedImg(TRUE, [k \in {"bob:main"} |-> "ws://b"]),
     FeedImg(TRUE, [k \in FeedIds |-> IF k = "bob:main" THEN "ws://b" ELSE ""])}
\* The image of a Gaia that knows the Sprite itself as a server.
OwnFeedImg ==
    FeedImg(TRUE, [k \in {Self, "bob:main"} |->
                        IF k = Self THEN "ws://me" ELSE "ws://b"])

\* What fetch() and res.json() come to: an image, or a failure (no answer, a
\* status that is not ok, a body that cannot be built or read).
FetchOutcomes == FeedImgs \cup {NoFeedImg}

\* get payload(): this.gaiaImg?.sprites?.[this.target.id]; undefined when there
\* is no image or the image has no entry for the target, a TypeError when
\* there is an image and no target.
payloadKnown == hasTarget /\ gaiaImg.known /\ Self \in DOMAIN gaiaImg.sprites

\* The names under which the collection holds a Vibe.
HeldNames == {vname[v] : v \in Range(players)}

\* What a feed operation did: the token and the request it saw, whether it
\* called fetch(), the ids it opened a connection to, in order, the names the
\* collection held before, whether it added the Vibe of the request, what it
\* notified, and how the handler ended.
NoReq == [tokenOk |-> FALSE, id |-> NoId, accept |-> FALSE]
ALast(op, tok, req, fetched, opened, held, attached, diag, result) ==
    [op |-> op, token |-> tok, req |-> req, fetched |-> fetched,
     opened |-> opened, held |-> held, attached |-> attached, diag |-> diag,
     result |-> result]

\* A feed operation that ends before it touches the Sprite.
FeedSkips(op, req, fetched, diag, result) ==
    /\ alast' = ALast(op, token, req, fetched, <<>>, HeldNames, FALSE, diag, result)
    /\ UNCHANGED <<auras, hasTarget, nodeToken, opts, unowned>>
    /\ UNCHANGED spriteVars
    /\ UNCHANGED <<gaiaVars, otherVars>>

\* GaiaAura.fetchGaiaImg up to fetch(): what stops it before the request.  The
\* body of the request is this.img, which reads this.target.id.
fetchStops ==
    IF token = NoToken THEN "Error"
    ELSE IF ~hasTarget THEN "TypeError"
    ELSE "none"

\* GaiaAura.refreshGaiaImg, run by its periodic task: a failure goes to the
\* else() of the task, which notifies it.
refreshGaiaImg(outcome) ==
    /\ IF tokenMissing(token)
       THEN /\ FeedSkips("refreshGaiaImg", NoReq, FALSE, "warning", "done")
            /\ UNCHANGED gaiaImg
       ELSE IF fetchStops # "none"
       THEN /\ FeedSkips("refreshGaiaImg", NoReq, FALSE, "error", fetchStops)
            /\ UNCHANGED gaiaImg
       ELSE IF ~outcome.known
       THEN /\ FeedSkips("refreshGaiaImg", NoReq, TRUE, "error", "Error")
            /\ UNCHANGED gaiaImg
       ELSE /\ FeedSkips("refreshGaiaImg", NoReq, TRUE, "none", "done")
            /\ gaiaImg' = outcome

\* Index in ps of the player named `name` when the names are nm; 0 when none.
IndexIn(ps, nm, name) ==
    IF \E i \in 1..Len(ps) : nm[ps[i]] = name
    THEN CHOOSE i \in 1..Len(ps) : nm[ps[i]] = name
    ELSE 0

\* this.target.vibes.add(id, vibe) for each id of `names` in turn, the Vibes
\* being v, v + 1, ...
RECURSIVE AddAll(_, _, _, _)
AddAll(ps, nm, names, v) ==
    IF names = <<>> THEN ps
    ELSE LET i == IndexIn(ps, nm, Head(names))
         IN AddAll(IF i = 0 THEN Append(ps, v) ELSE [ps EXCEPT ![i] = v],
                   nm, Tail(names), v + 1)

\* The ids feedVibes opens a connection to, given the draws: those with a url.
toOpen(snap, draws) == SelectSeq(draws, LAMBDA k : snap.sprites[k] # "")

\* GaiaAura.feedVibes, run by its periodic task.  Each sampled sprite with a
\* url gets a connection, a Vibe under its id and a ping(), which is sent on
\* a connection that is not open yet.
feedVibes(outcome) ==
    IF opts.sample <= 0
    THEN /\ FeedSkips("feedVibes", NoReq, FALSE, "none", "done")
         /\ UNCHANGED gaiaImg
    ELSE IF tokenMissing(token)
    THEN /\ FeedSkips("feedVibes", NoReq, FALSE, "warning", "done")
         /\ UNCHANGED gaiaImg
    ELSE IF ~payloadKnown
    THEN /\ FeedSkips("feedVibes", NoReq, FALSE, "error", "TypeError")
         /\ UNCHANGED gaiaImg
    ELSE IF ~outcome.known
    THEN /\ FeedSkips("feedVibes", NoReq, TRUE, "error", "Error")
         /\ UNCHANGED gaiaImg
    ELSE \E draws \in sample(SetToSeq(DOMAIN outcome.sprites), opts.sample) :
         LET ids == toOpen(outcome, draws)
             k == Len(ids)
             new == (nVibes + 1)..(nVibes + k)
             calls == (nPings + 1)..(nPings + k)
             names == [v \in VibeIds |->
                        IF v \in new THEN ids[v - nVibes] ELSE vname[v]]
         IN /\ nVibes + k <= MaxVibes
            /\ nPings + k <= MaxPings
            /\ \E throws \in [new -> BOOLEAN] :
                /\ nVibes' = nVibes + k
                /\ vname' = names
                /\ players' = AddAll(players, names, ids, nVibes + 1)
                /\ conn' = [v \in VibeIds |->
                              IF v \in new THEN "connecting" ELSE conn[v]]
                /\ lastActive' = [v \in VibeIds |->
                                    IF v \in new THEN now ELSE lastActive[v]]
                /\ muted' = [v \in VibeIds |->
                               IF v \in new THEN FALSE ELSE muted[v]]
                /\ value' = [v \in VibeIds |->
                               IF v \in new
                               THEN IF throws[v] THEN Else(v).value ELSE 0
                               ELSE value[v]]
                /\ sent' = [v \in VibeIds |->
                              IF v \in new /\ ~throws[v]
                              THEN {Msg("ping", v - nVibes + nPings, None, None)}
                              ELSE sent[v]]
                /\ nPings' = nPings + k
                /\ pings' = [p \in PingIds |->
                               IF p \in calls
                               THEN LET v == p - nPings + nVibes
                                    IN IF throws[v]
                                       THEN [vibe |-> v, start |-> now,
                                             st |-> "sendFailed",
                                             listening |-> FALSE, dereg |-> 0,
                                             outcome |-> Else(v).outcome]
                                       ELSE [vibe |-> v, start |-> now,
                                             st |-> "waiting",
                                             listening |-> TRUE, dereg |-> 0,
                                             outcome |-> "pending"]
                               ELSE pings[p]]
                /\ last' = Op("feedVibes", None, None, "done", k)
                /\ rotLog' = IF k = 0 THEN rotLog ELSE <<>>
                /\ alast' = ALast("feedVibes", token, NoReq, TRUE, ids,
                                  HeldNames, FALSE, "none", "done")
                /\ UNCHANGED <<rr, now>>
                /\ UNCHANGED <<auras, hasTarget, nodeToken, gaiaImg, opts, unowned>>
                /\ UNCHANGED <<gaiaVars, otherVars>>

\* The "open" event of a connection the feed opened.
wsOpen(v) ==
    /\ v \in Created
    /\ conn[v] = "connecting"
    /\ conn' = [conn EXCEPT ![v] = "open"]
    /\ last' = Op("wsOpen", v, None, "done", 0)
    /\ UNCHANGED <<players, rr, nVibes, vname, value, lastActive, muted, sent,
                   nPings, pings, now, rotLog>>
    /\ UNCHANGED <<gaiaVars, auraVars, otherVars>>

\* The connection requests the server hands to the HttpAura: whether the
\* token check of HttpHandler passes, the id the token carries, and what the
\* filter says of the request.
ConnRequests ==
    [tokenOk : BOOLEAN, id : {NoId, "bob:main"}, accept : BOOLEAN]

\* HttpAura.resolveConnection({req, ws}) for a feed that is, or is not, held
\* by a Sprite: how it ends.
resolveConnectionUnfiltered(req, held) ==
    IF req.id = NoId THEN "noId"
    ELSE IF ~held THEN "TypeError"
    ELSE "added"
resolveConnection(req, held) ==
    IF ~req.accept THEN "filtered"
    ELSE IF req.id = NoId THEN "noId"
    ELSE IF ~held THEN "TypeError"
    ELSE "added"

\* What becomes of the connection when no Vibe is made of it.  The code that
\* turns a request down returns, or notifies, and calls nothing on ws; when
\* the token check of HttpHandler fails, the library may have ended it.
leftOpen(how, before) ==
    IF how = "noToken" THEN {before, TRUE} ELSE {TRUE}

\* HttpAura.handleConnection(ws, req): the token check, then resolveConnection;
\* else() takes a failure of either and notifies a warning.
handleConnection(req) ==
    LET how == IF req.tokenOk THEN resolveConnection(req, sprite(HttpFeed))
               ELSE "noToken"
        v == nVibes + 1
    IN /\ UNCHANGED gaiaImg
       /\ IF how = "added"
          THEN /\ nVibes < MaxVibes
               /\ nVibes' = v
               /\ vname' = [vname EXCEPT ![v] = req.id]
               /\ value' = [value EXCEPT ![v] = 0]
               /\ lastActive' = [lastActive EXCEPT ![v] = now]
               /\ muted' = [muted EXCEPT ![v] = FALSE]
               /\ conn' = [conn EXCEPT ![v] = "open"]
               /\ players' = EnsembleAdd(players, req.id, v)
               /\ last' = Op("handleConnection", v, None, "done", 1)
               /\ rotLog' = <<>>
               /\ alast' = ALast("handleConnection", NoToken, req, FALSE, <<>>,
                                 HeldNames, TRUE, "info", "done")
               /\ UNCHANGED <<rr, sent, nPings, pings, now>>
               /\ UNCHANGED <<auras, hasTarget, nodeToken, opts, unowned>>
               /\ UNCHANGED <<gaiaVars, otherVars>>
          ELSE /\ alast' = ALast("handleConnection", NoToken, req, FALSE, <<>>,
                                 HeldNames, FALSE,
                                 IF how = "filtered" THEN "info" ELSE "warning",
                                 "done")
               /\ unowned' \in leftOpen(how, unowned)
               /\ UNCHANGED <<auras, hasTarget, nodeToken, opts>>
               /\ UNCHANGED spriteVars
               /\ UNCHANGED <<gaiaVars, otherVars>>

\* sprite.auras.add(name, aura), by the program that builds the Sprite.
aurasAdd(feed) ==
    /\ feed \notin auras
    /\ auras' = auras \cup {feed}
    /\ alast' = ALast("aurasAdd", NoToken, NoReq, FALSE, <<>>, HeldNames, FALSE,
                      "none", "done")
    /\ UNCHANGED <<hasTarget, nodeToken, gaiaImg, opts, unowned>>
    /\ UNCHANGED spriteVars
    /\ UNCHANGED <<gaiaVars, otherVars>>

\* Aura.connect(name): this.target.auras.add(name, this).  The HttpAura is
\* constructed without a target, and so is the GaiaAura unless it is given one.
connect(feed) ==
    /\ feed \notin auras
    /\ IF feed = GaiaFeed /\ hasTarget
       THEN /\ auras' = auras \cup {feed}
            /\ alast' = ALast("connect", NoToken, NoReq, FALSE, <<>>, HeldNames,
                              FALSE, "none", "done")
       ELSE /\ auras' = auras
            /\ alast' = ALast("connect", NoToken, NoReq, FALSE, <<>>, HeldNames,
                              FALSE, "none", "TypeError")
    /\ UNCHANGED <<hasTarget, nodeToken, gaiaImg, opts, unowned>>
    /\ UNCHANGED spriteVars
    /\ UNCHANGED <<gaiaVars, otherVars>>

\* Node.refreshToken(): node.token gets the token the server gave.
refreshToken(tok) ==
    /\ nodeToken # tok
    /\ nodeToken' = tok
    /\ alast' = ALast("refreshToken", NoToken, NoReq, FALSE, <<>>, HeldNames,
                      FALSE, "none", "done")
    /\ UNCHANGED <<auras, hasTarget, gaiaImg, opts, unowned>>
    /\ UNCHANGED spriteVars
    /\ UNCHANGED <<gaiaVars, otherVars>>

\* ---------------------------------------------- Sprite: static helpers
\* The strings the helpers are called with: up to MaxLen characters.
Letters == {"a", "b"}
Strs(A) == UNION {[1..k -> A] : k \in 0..MaxLen}
Plain == Strs(Letters) \ {<<>>}
Strings == Strs(Letters \cup {Sep})

\* The pieces of the ids the Vibes of the model bear.
Chars(name) ==
    CASE name = "alice:main" -> id(Alice, Main)
      [] name = "bob:main" -> id(Bob, Main)
      [] name = "carol:main" -> id(<<"carol">>, Main)
      [] OTHER -> <<name>>

Answer(user, name, result) == [user |-> user, name |-> name, result |-> result]
Asked(op, this, a, b, out) == [op |-> op, this |-> this, a |-> a, b |-> b, out |-> out]
NoAsk == Asked("none", "", <<>>, <<>>, Answer(<<>>, <<>>, ""))
CallsIdle == asked = NoAsk

\* The loop of isConnectedTo over the names of the Vibes of a collection.
connectedIn(names, trgId) ==
    LET trg == parseId(trgId)
    IN \E n \in names :
          LET peer == parseId(Chars(n))
          IN /\ trg.user = peer.user
             /\ (trg.name \in {NoString, <<>>} \/ trg.name = peer.name)

\* What `this` is in the call: the method is static, so it is a property of
\* the class and not of a Sprite, and the class has no `vibes`.
Receivers == {"Sprite", "sprite"}
hasMethod(this) == this = "Sprite"
hasVibes(this) == this = "sprite"

\* Sprite.isConnectedTo(srcId, trgId) and sprite.isConnectedTo(trgId)
isConnectedToResult(this, names, trgId) ==
    IF ~hasMethod(this) THEN "TypeError"
    ELSE IF ~hasVibes(this) THEN "TypeError"
    ELSE IF connectedIn(names, trgId) THEN "true" ELSE "false"

TargetIds == {Alice, Bob, id(Alice, Main), id(Bob, Main), id(Bob, <<"worker">>)}

isConnectedTo(this, trgId) ==
    /\ asked' = Asked("isConnectedTo", this, trgId, <<>>,
                      Answer(<<>>, <<>>, isConnectedToResult(this, HeldNames, trgId)))
    /\ UNCHANGED <<spriteVars, gaiaVars, auraVars, taskVars, navVars, storeVars>>

\* Sprite.parseId(Sprite.id(user, name))
parseIdOfId(user, name) ==
    /\ asked' = Asked("parseId(id)", "Sprite", user, name,
                      LET parsed == parseId(id(user, name))
                      IN Answer(parsed.user, parsed.name, "done"))
    /\ UNCHANGED <<spriteVars, gaiaVars, auraVars, taskVars, navVars, storeVars>>

\* Sprite.parseId(sid)
parseIdOf(sid) ==
    /\ asked' = Asked("parseId", "Sprite", sid, <<>>,
                      LET parsed == parseId(sid)
                      IN Answer(parsed.user, parsed.name, "done"))
    /\ UNCHANGED <<spriteVars, gaiaVars, auraVars, taskVars, navVars, storeVars>>

\* ----------------------------------------------------------- ObjNavigator
\* A JSON val: undefined, null, a primitive, or an object, which is a
\* function over its keys.  A key is the sequence of its characters.
JsValue(t, n, f) == [t |-> t, n |-> n, f |-> f]
Undefined == JsValue("undefined", 0, <<>>)
Null == JsValue("null", 0, <<>>)
Prim(n) == JsValue("primitive", n, <<>>)
Obj(f) == JsValue("object", 0, f)
EmptyObj == Obj(<<>>)
Thrown(name) == JsValue(name, 0, <<>>)
Throws == {Thrown("TypeError"), Thrown("Error: does not exist"),
           Thrown("Error: is not an object")}

Dot == "."
KeyA == <<"a">>
KeyB == <<"b">>
KeyUndefined == <<"undefined">>
One(k, v) == [x \in {k} |-> v]

\* A path argument: an array of keys, or one string of characters.
Path(kind, items) == [kind |-> kind, items |-> items]
ArrayPaths ==
    {Path("array", ks) : ks \in UNION {[1..n -> {KeyA, KeyB}] : n \in 0..MaxPath}}
StringPaths ==
    {Path("string", <<cs>>) :
        cs \in UNION {[1..n -> {"a", "b", Dot}] : n \in 0..MaxPath}}
Paths == ArrayPaths \cup StringPaths

\* path.split(".")
RECURSIVE splitDots(_)
splitDots(s) ==
    IF \A i \in 1..Len(s) : s[i] # Dot
    THEN <<s>>
    ELSE LET i == CHOOSE i \in 1..Len(s) :
                      s[i] = Dot /\ \A j \in 1..(i - 1) : s[j] # Dot
         IN <<SubSeq(s, 1, i - 1)>> \o splitDots(SubSeq(s, i + 1, Len(s)))

\* ObjNavigator.normalizePath(path)
normalizePath(path) ==
    IF path.kind = "array" THEN path.items
    ELSE SelectSeq(splitDots(path.items[1]), LAMBDA part : part # <<>>)

\* key in current: throws a TypeError unless current is an object.
inThrows(current) == current.t # "object"
has(current, key) == key \in DOMAIN current.f

\* The loop of get(path) from `current` on.
RECURSIVE getFrom(_, _)
getFrom(current, keys) ==
    IF keys = <<>> THEN current
    ELSE IF inThrows(current) THEN Thrown("TypeError")
    ELSE IF ~has(current, Head(keys)) THEN Undefined
    ELSE getFrom(current.f[Head(keys)], Tail(keys))

\* current[key] = val
putKeep(current, key, val) ==
    Obj([k \in DOMAIN current.f \cup {key} |->
            IF k \in DOMAIN current.f THEN current.f[k] ELSE val])
put(current, key, val) ==
    Obj([k \in DOMAIN current.f \cup {key} |->
            IF k = key THEN val ELSE current.f[k]])

\* typeof v === "object", for a v that is neither null nor undefined
isAnything(v) == TRUE
isObject(v) == v.t = "object"

\* The loop of set(path, val, createMissing) from the object `current` on,
\* and the assignment after it: the object as the call leaves it, and the
\* error it throws, if any.
SetResult(obj, err) == [obj |-> obj, err |-> err]
RECURSIVE setIn(_, _, _, _)
setIn(current, keys, val, createMissing) ==
    IF keys = <<>> THEN SetResult(put(current, KeyUndefined, val), "")
    ELSE IF Len(keys) = 1 THEN SetResult(put(current, Head(keys), val), "")
    ELSE LET key == Head(keys)
             absent == ~has(current, key) \/ current.f[key].t \in {"null", "undefined"}
         IN IF absent /\ ~createMissing
            THEN SetResult(current, "Error: does not exist")
            ELSE IF ~absent /\ ~isObject(current.f[key])
            THEN SetResult(current, "Error: is not an object")
            ELSE LET child == IF absent THEN EmptyObj ELSE current.f[key]
                     below == setIn(child, Tail(keys), val, createMissing)
                 IN SetResult(put(current, key, below.obj), below.err)

\* The objects a navigator is made for, and the values set() is given.
Level1 == {Prim(1), Null, EmptyObj, Obj(One(KeyA, Prim(1))),
           Obj(One(KeyB, EmptyObj))}
Roots == {Obj(f) : f \in Maps({KeyA, KeyB}, Level1)}
SetValues == {Prim(1), Prim(2), Null, Undefined, Obj(One(KeyA, Prim(2)))}

NavCall(op, path, val, before, out, returned) ==
    [op |-> op, path |-> path, val |-> val, before |-> before,
     out |-> out, returned |-> returned]
NoNavCall == NavCall("none", Path("array", <<>>), Undefined, EmptyObj, Undefined, "")
NavIdle ==
    /\ root = EmptyObj
    /\ nlast = NoNavCall

\* navigator.get(path)
get(path) ==
    /\ root' = root
    /\ nlast' = NavCall("get", path, Undefined, root,
                        getFrom(root, normalizePath(path)),
                        IF getFrom(root, normalizePath(path)) \in Throws
                        THEN "thrown" ELSE "value")
    /\ UNCHANGED <<spriteVars, gaiaVars, auraVars, taskVars, callVars, storeVars>>

\* navigator.set(path, val, createMissing)
set(path, val, createMissing) ==
    LET done == setIn(root, normalizePath(path), val, createMissing)
    IN /\ root' = done.obj
       /\ nlast' = NavCall(IF createMissing THEN "set" ELSE "set(false)",
                           path, val, root,
                           IF done.err = "" THEN Undefined ELSE Thrown(done.err),
                           IF done.err = "" THEN "this" ELSE "thrown")
       /\ UNCHANGED <<spriteVars, gaiaVars, auraVars, taskVars, callVars, storeVars>>

\* ------------------------------------------------------------ OptionStore
\* The classes options are set for: Base, Derived that extends Base, a
\* second class that is also named Base, and a class expression without a
\* name that extends Base.  Above every class are Function.prototype, whose
\* name is the empty string, and Object.prototype, which has no name.
Classes == {"Base", "Derived", "Base'", "anonymous"}
NoClass == "null"
typeName(type) ==
    CASE type \in {"Base", "Base'"} -> "Base"
      [] type = "Derived" -> "Derived"
      [] type \in {"anonymous", "Function.prototype"} -> ""
      [] OTHER -> "undefined"

\* Object.getPrototypeOf(current)
getPrototypeOf(current) ==
    CASE current \in {"Derived", "anonymous"} -> "Base"
      [] current \in {"Base", "Base'"} -> "Function.prototype"
      [] current = "Function.prototype" -> "Object.prototype"
      [] OTHER -> NoClass

OptionKeys == {"color", "size"}
NoOption == "undefined"
NeverSet == "never set"
OptionValues == {"blue", "red", NoOption}

\* this.data[typeName]?.[key]
optionOf(d, tn, key) ==
    IF tn \in DOMAIN d /\ key \in DOMAIN d[tn]
    THEN d[tn][key] ELSE NoOption

\* The loop of OptionStore.get(type, key) from the class `current` on.
storeGetOwn(d, current, key) == optionOf(d, typeName(current), key)
RECURSIVE storeGetFrom(_, _, _)
storeGetFrom(d, current, key) ==
    IF current = NoClass THEN NoOption
    ELSE IF optionOf(d, typeName(current), key) # NoOption
    THEN optionOf(d, typeName(current), key)
    ELSE storeGetFrom(d, getPrototypeOf(current), key)

StoreCall(op, type, key, val, out) ==
    [op |-> op, type |-> type, key |-> key, val |-> val, out |-> out]
NoStoreCall == StoreCall("none", NoClass, "", NoOption, "")
StoreIdle ==
    /\ storeData = <<>>
    /\ lastSet = [c \in Classes |-> [k \in OptionKeys |-> NeverSet]]
    /\ olast = NoStoreCall

\* optionStore.set(type, key, value)
storeSet(type, key, val) ==
    /\ IF typeName(type) = ""
       THEN /\ olast' = StoreCall("set", type, key, val, "Error")
            /\ UNCHANGED <<storeData, lastSet>>
       ELSE /\ storeData' =
                  assign(storeData,
                         [n \in {typeName(type)} |->
                             assign(IF typeName(type) \in DOMAIN storeData
                                    THEN storeData[typeName(type)] ELSE <<>>,
                                    [k \in {key} |-> val])])
            /\ lastSet' = [lastSet EXCEPT ![type][key] = val]
            /\ olast' = StoreCall("set", type, key, val, "this")
    /\ UNCHANGED <<spriteVars, gaiaVars, auraVars, taskVars, callVars, navVars>>

\* optionStore.get(type, key)
storeGet(type, key) ==
    /\ olast' = StoreCall("get", type, key, NoOption,
                          storeGetFrom(storeData, type, key))
    /\ UNCHANGED <<storeData, lastSet>>
    /\ UNCHANGED <<spriteVars, gaiaVars, auraVars, taskVars, callVars, navVars>>

\* ----------------------------------------------------------- periodic tasks
\* The periodic tasks, by the names they are given to ostinato().
SpriteTasks == {"refreshVibes"}
AuraTasks == {"refreshGaiaImg", "feedVibes"}
Tasks == SpriteTasks \cup AuraTasks \cup {"refreshToken", "refresh"}

\* The last argument of ostinato(): the invocations of a task that may be in
\* flight together.
Concurrency == 1

\* The configurations a Node is constructed with: of opts.token and opts.self,
\* whether the url and the beat are there.
Pairs == [url : BOOLEAN, beat : BOOLEAN]
NodeOpts == [token : Pairs, self : Pairs]
Complete(pair) == pair.url /\ pair.beat
NoOpts == [token |-> [url |-> FALSE, beat |-> FALSE],
           self |-> [url |-> FALSE, beat |-> FALSE]]

\* The Node constructor: the tasks it starts, and how it ends.  It starts the
\* task of each complete pair, and it has no throw statement.
NodeTasks(o) ==
    (IF Complete(o.token) THEN {"refreshToken"} ELSE {}) \cup
    (IF Complete(o.self) THEN {"refresh"} ELSE {})
NodeBuilt(o) == "built"

\* An event of the periodic tasks: a tick that started an invocation or was
\* skipped, or the end of an invocation, with what was notified.
TaskEvent(op, t, diag) == [op |-> op, task |-> t, diag |-> diag]
NoTaskEvent == TaskEvent("none", "", "none")

\* ostinato(name, what, Infinity, beat, n): whether a tick starts an
\* invocation when k are in flight.
mayStartAlways(k) == TRUE
mayStart(k) == k < Concurrency

\* else(err => this.notify("error", err)): the tasks that stay scheduled when
\* an invocation of t fails.
afterFailureDropped(sched, t) == sched \ {t}
afterFailure(sched, t) == sched

\* A tick of the task t: an invocation starts, unless one is in flight.
ostinatoTick(t) ==
    /\ t \in scheduled
    /\ IF mayStart(inflight[t])
       THEN /\ inflight' = [inflight EXCEPT ![t] = @ + 1]
            /\ tlast' = TaskEvent("start", t, "none")
       ELSE /\ inflight' = inflight
            /\ tlast' = TaskEvent("skip", t, "none")
    /\ UNCHANGED <<nodeOpts, built, scheduled>>
    /\ UNCHANGED <<spriteVars, gaiaVars, auraVars, callVars, navVars, storeVars>>

\* An invocation of the task t ends: with its result, or with a failure that
\* else() hands to notify().
ostinatoEnd(t, ok) ==
    /\ inflight[t] > 0
    /\ inflight' = [inflight EXCEPT ![t] = @ - 1]
    /\ IF ok
       THEN /\ tlast' = TaskEvent("done", t, "none")
            /\ scheduled' = scheduled
       ELSE /\ tlast' = TaskEvent("failed", t, "error")
            /\ scheduled' = afterFailure(scheduled, t)
    /\ UNCHANGED <<nodeOpts, built>>
    /\ UNCHANGED <<spriteVars, gaiaVars, auraVars, callVars, navVars, storeVars>>

\* --------------------------------------- Node: token and configuration
\* The tokens the token endpoint may answer with.
NodeTokens == Tokens \cup {"tok2"}

\* What a fetch of the Node comes to: the value, or an exception.
Fetched(threw, val) == [threw |-> threw, value |-> val]

\* Node.fetchToken(): fetch(this.opts.token.url), which throws when opts has
\* no token url, when the request fails, or when the answer is not ok.
fetchToken(ok, tok) ==
    IF nodeOpts.token.url /\ ok
    THEN Fetched(FALSE, tok)
    ELSE Fetched(TRUE, NoToken)

\* Node.fetchOpts(): fetch(this.opts.self.url), likewise.
fetchOpts(ok, o) ==
    IF nodeOpts.self.url /\ ok
    THEN Fetched(FALSE, o)
    ELSE Fetched(TRUE, NoOpts)

\* Node.refreshOpts(): this.opts becomes the configuration that was fetched.
refreshOpts(o, got) == IF got.threw THEN o ELSE got.value

\* Node.refreshToken(), an invocation of the task "refreshToken".
nodeRefreshToken(ok, tok) ==
    LET got == fetchToken(ok, tok)
    IN /\ "refreshToken" \in scheduled
       /\ nodeToken' = IF got.threw THEN nodeToken ELSE got.value
       /\ tlast' = IF got.threw
                    THEN TaskEvent("threw", "refreshToken", "error")
                    ELSE TaskEvent("returned", "refreshToken", "none")
       /\ UNCHANGED <<nodeOpts, built, scheduled, inflight>>
       /\ UNCHANGED <<auras, hasTarget, gaiaImg, opts, alast, unowned>>
       /\ UNCHANGED <<spriteVars, gaiaVars, callVars, navVars, storeVars>>

\* Node.refresh(), an invocation of the task "refresh": refreshOpts(), then
\* sync(), which throws in Node and may return in a subclass.
refresh(ok, o, synced) ==
    LET got == fetchOpts(ok, o)
    IN /\ "refresh" \in scheduled
       /\ nodeOpts' = refreshOpts(nodeOpts, got)
       /\ tlast' = IF got.threw \/ ~synced
                    THEN TaskEvent("threw", "refresh", "error")
                    ELSE TaskEvent("returned", "refresh", "none")
       /\ UNCHANGED <<built, scheduled, inflight>>
       /\ UNCHANGED auraVars
       /\ UNCHANGED <<spriteVars, gaiaVars, callVars, navVars, storeVars>>

\* ---------------------------------------------------------- specifications
\* The peer ids a new connection may come from.  Peer ids are interchangeable
\* (no operation looks into them), so a peer that is new to the Sprite takes
\* the first id that no living Vibe bears.
NamesInUse == {vname[v] : v \in Created} \ {NoName}
Callers ==
    NamesInUse \cup
    {PeerSeq[i] : i \in {i \in 1..Len(PeerSeq) :
                            /\ PeerSeq[i] \notin NamesInUse
                            /\ \A j \in 1..(i - 1) : PeerSeq[j] \in NamesInUse}}

NoPing == [vibe |-> None, start |-> 0, st |-> "unused", listening |-> FALSE,
           dereg |-> 0, outcome |-> "pending"]

\* No Gaia in the process: its maps stay empty and nothing is answered.
NoResponse == Response(0, "", EmptyImg)
\* No periodic task in the process.
TasksIdle ==
    /\ nodeOpts = NoOpts
    /\ built = "none"
    /\ scheduled = {}
    /\ inflight = [t \in Tasks |-> 0]
    /\ tlast = NoTaskEvent

\* No feed in the process.
NoFeedOp == ALast("none", NoToken, NoReq, FALSE, <<>>, {}, FALSE, "none", "done")
AuraIdle ==
    /\ auras = {}
    /\ hasTarget = FALSE
    /\ unowned = FALSE
    /\ nodeToken = NoToken
    /\ gaiaImg = NoFeedImg
    /\ opts = [sample |-> 0]
    /\ alast = NoFeedOp

GaiaIdle ==
    /\ users = EmptyMap
    /\ sprites = EmptyMap
    /\ vibes = EmptyMap
    /\ res = NoResponse
    /\ gcall = NoCall

\* A Sprite after construction: no Vibe yet.
Init ==
    /\ TasksIdle
    /\ CallsIdle
    /\ NavIdle
    /\ StoreIdle
    /\ AuraIdle
    /\ GaiaIdle
    /\ players = <<>>
    /\ rr = 0
    /\ nVibes = 0
    /\ vname = [v \in VibeIds |-> NoName]
    /\ value = [v \in VibeIds |-> 0]
    /\ lastActive = [v \in VibeIds |-> 0]
    /\ muted = [v \in VibeIds |-> FALSE]
    /\ conn = [v \in VibeIds |-> "closed"]
    /\ sent = [v \in VibeIds |-> {}]
    /\ nPings = 0
    /\ pings = [p \in PingIds |-> NoPing]
    /\ now = 0
    /\ last = Op("init", None, None, "done", 0)
    /\ rotLog = <<>>

\* The Sprite over time: Vibes come, are active or fall silent, are closed.
Next ==
    \/ \E name \in Callers, val \in CtorValues : AddVibe(name, val)
    \/ refreshVibes
    \/ \E v \in VibeIds : TransportClose(v)
    \/ \E v \in VibeIds : onClose(v)
    \/ \E v \in VibeIds, data \in PlainData : messageCue(v, data, {})
    \/ Tick

Spec == Init /\ [][Next]_vars

\* The Sprite as a dispatcher: Vibes come, are muted, are closed, and send()
\* goes round them.  The clock stands still.
NextSend ==
    \/ \E name \in Callers, val \in CtorValues : AddVibe(name, val)
    \/ refreshVibes
    \/ \E v \in VibeIds : TransportClose(v)
    \/ \E v \in VibeIds : onClose(v)
    \/ \E msg \in AppPayloads, pred \in Predicates : send(msg, pred)

SpecSend == Init /\ [][NextSend]_vars

\* The timer of refreshVibes fires again and again, the clock advances, and
\* the close event of a connection that was closed is delivered.
FairSprite ==
    /\ WF_vars(refreshVibes)
    /\ WF_vars(Tick)
    /\ \A v \in VibeIds : WF_vars(onClose(v))

SpecLive == Spec /\ FairSprite

\* One Vibe on an open connection, not held by any Sprite, and its peer.
InitVibe ==
    /\ TasksIdle
    /\ CallsIdle
    /\ NavIdle
    /\ StoreIdle
    /\ AuraIdle
    /\ GaiaIdle
    /\ players = <<>>
    /\ rr = 0
    /\ nVibes = 1
    /\ vname = [v \in VibeIds |-> NoName]
    /\ value = [v \in VibeIds |-> 0]
    /\ lastActive = [v \in VibeIds |-> 0]
    /\ muted = [v \in VibeIds |-> FALSE]
    /\ conn = [v \in VibeIds |-> IF v = 1 THEN "open" ELSE "closed"]
    /\ sent = [v \in VibeIds |-> {}]
    /\ nPings = 0
    /\ pings = [p \in PingIds |-> NoPing]
    /\ now = 0
    /\ last = Op("init", None, None, "done", 0)
    /\ rotLog = <<>>

NextVibe ==
    \/ ping(1)
    \/ \E data \in PeerData, seen \in SUBSET PingIds : messageCue(1, data, seen)
    \/ \E p \in PingIds : pingTimeout(p)
    \/ TransportClose(1)
    \/ Tick

SpecVibe == InitVibe /\ [][NextVibe]_vars

\* A Gaia as constructed with maps of users, sprites and vibes, no Sprite in
\* the process; requests come in and the embedding program merges images.
InitGaia ==
    /\ TasksIdle
    /\ CallsIdle
    /\ NavIdle
    /\ StoreIdle
    /\ AuraIdle
    /\ players = <<>>
    /\ rr = 0
    /\ nVibes = 0
    /\ vname = [v \in VibeIds |-> NoName]
    /\ value = [v \in VibeIds |-> 0]
    /\ lastActive = [v \in VibeIds |-> 0]
    /\ muted = [v \in VibeIds |-> FALSE]
    /\ conn = [v \in VibeIds |-> "closed"]
    /\ sent = [v \in VibeIds |-> {}]
    /\ nPings = 0
    /\ pings = [p \in PingIds |-> NoPing]
    /\ now = 0
    /\ last = Op("init", None, None, "done", 0)
    /\ rotLog = <<>>
    /\ users \in Maps(GaiaUserIds, UserPayloads)
    /\ sprites \in Maps(SpriteIds, SpritePayloads)
    /\ vibes \in Maps(SpriteIds, TargetLists)
    /\ res = NoResponse
    /\ gcall = NoCall

NextGaia ==
    \/ \E req \in Requests : handleRequest(req)
    \/ \E partial \in Bodies : GaiaUpdate(partial)

SpecGaia == InitGaia /\ [][NextGaia]_vars

\* A Gaia that knows some of three sprites of two users, and is asked for
\* snapshots by the program that embeds it.
Bot == <<"bot">>
ImgSpriteIds == SpriteIds \cup {id(Alice, Bot)}
InitImg ==
    /\ TasksIdle
    /\ CallsIdle
    /\ NavIdle
    /\ StoreIdle
    /\ AuraIdle
    /\ players = <<>>
    /\ rr = 0
    /\ nVibes = 0
    /\ vname = [v \in VibeIds |-> NoName]
    /\ value = [v \in VibeIds |-> 0]
    /\ lastActive = [v \in VibeIds |-> 0]
    /\ muted = [v \in VibeIds |-> FALSE]
    /\ conn = [v \in VibeIds |-> "closed"]
    /\ sent = [v \in VibeIds |-> {}]
    /\ nPings = 0
    /\ pings = [p \in PingIds |-> NoPing]
    /\ now = 0
    /\ last = Op("init", None, None, "done", 0)
    /\ rotLog = <<>>
    /\ users \in {EmptyMap, [u \in GaiaUserIds |-> "machines"]}
    /\ sprites \in Maps(ImgSpriteIds, SpritePayloads)
    /\ vibes \in Maps(SpriteIds, TargetLists)
    /\ res = NoResponse
    /\ gcall = NoCall

NextImg == \E args \in ImgCalls : GaiaImg(args)

SpecImg == InitImg /\ [][NextImg]_vars

\* A Sprite with no Vibe yet and two feeds made for it, a GaiaAura and an
\* HttpAura, not yet added to the Sprite's auras; the Node has no token yet,
\* and gets one or loses it as the program goes.
InitAura ==
    /\ TasksIdle
    /\ CallsIdle
    /\ NavIdle
    /\ StoreIdle
    /\ GaiaIdle
    /\ players = <<>>
    /\ rr = 0
    /\ nVibes = 0
    /\ vname = [v \in VibeIds |-> NoName]
    /\ value = [v \in VibeIds |-> 0]
    /\ lastActive = [v \in VibeIds |-> 0]
    /\ muted = [v \in VibeIds |-> FALSE]
    /\ conn = [v \in VibeIds |-> "closed"]
    /\ sent = [v \in VibeIds |-> {}]
    /\ nPings = 0
    /\ pings = [p \in PingIds |-> NoPing]
    /\ now = 0
    /\ last = Op("init", None, None, "done", 0)
    /\ rotLog = <<>>
    /\ auras = {}
    /\ hasTarget \in BOOLEAN
    /\ unowned = FALSE
    /\ nodeToken = NoToken
    /\ gaiaImg = NoFeedImg
    /\ opts \in [sample : SampleOpts]
    /\ alast = NoFeedOp

NextAura ==
    \/ \E outcome \in FetchOutcomes : refreshGaiaImg(outcome)
    \/ \E outcome \in FetchOutcomes : feedVibes(outcome)
    \/ \E req \in ConnRequests : handleConnection(req)
    \/ \E feed \in {GaiaFeed, HttpFeed} : aurasAdd(feed)
    \/ \E feed \in {GaiaFeed, HttpFeed} : connect(feed)
    \/ \E tok \in Tokens \cup {NoToken} : refreshToken(tok)
    \/ \E v \in VibeIds : wsOpen(v)

SpecAura == InitAura /\ [][NextAura]_vars

\* The GaiaAura of a Sprite that the Gaia may know as a server.
NextOwn ==
    \/ \E outcome \in FetchOutcomes \cup {OwnFeedImg} : refreshGaiaImg(outcome)
    \/ \E outcome \in FetchOutcomes \cup {OwnFeedImg} : feedVibes(outcome)
    \/ aurasAdd(GaiaFeed)
    \/ \E tok \in Tokens \cup {NoToken} : refreshToken(tok)
    \/ \E v \in VibeIds : wsOpen(v)

SpecOwn == InitAura /\ [][NextOwn]_vars

\* A Node constructed with some configuration, its Sprite and the GaiaAura of
\* the Sprite: the constructors have started the periodic tasks, and the ticks
\* come.
InitTasks ==
    /\ GaiaIdle
    /\ CallsIdle
    /\ NavIdle
    /\ StoreIdle
    /\ AuraIdle
    /\ players = <<>>
    /\ rr = 0
    /\ nVibes = 0
    /\ vname = [v \in VibeIds |-> NoName]
    /\ value = [v \in VibeIds |-> 0]
    /\ lastActive = [v \in VibeIds |-> 0]
    /\ muted = [v \in VibeIds |-> FALSE]
    /\ conn = [v \in VibeIds |-> "closed"]
    /\ sent = [v \in VibeIds |-> {}]
    /\ nPings = 0
    /\ pings = [p \in PingIds |-> NoPing]
    /\ now = 0
    /\ last = Op("init", None, None, "done", 0)
    /\ rotLog = <<>>
    /\ nodeOpts \in NodeOpts
    /\ built = NodeBuilt(nodeOpts)
    /\ scheduled = SpriteTasks \cup AuraTasks \cup NodeTasks(nodeOpts)
    /\ inflight = [t \in Tasks |-> 0]
    /\ tlast = NoTaskEvent

NextTasks ==
    \/ \E t \in Tasks : ostinatoTick(t)
    \/ \E t \in Tasks, ok \in BOOLEAN : ostinatoEnd(t, ok)

SpecTasks == InitTasks /\ [][NextTasks]_vars

\* A Node whose token and configuration are refreshed.
NextNode ==
    \/ \E ok \in BOOLEAN, tok \in NodeTokens : nodeRefreshToken(ok, tok)
    \/ \E ok \in BOOLEAN, o \in NodeOpts, synced \in BOOLEAN : refresh(ok, o, synced)

SpecNode == InitTasks /\ [][NextNode]_vars

\* A Sprite whose connections come and go, asked about its connections.
NextConn ==
    \/ \E name \in Callers, val \in CtorValues : AddVibe(name, val)
    \/ \E v \in VibeIds : TransportClose(v)
    \/ \E v \in VibeIds : onClose(v)
    \/ \E this \in Receivers, trgId \in TargetIds : isConnectedTo(this, trgId)

SpecConn == Init /\ [][NextConn]_vars

\* The id helpers called with every string of the bounded alphabet.
NextId ==
    \/ \E user \in Strings, name \in Strings : parseIdOfId(user, name)
    \/ \E sid \in Strings : parseIdOf(sid)

SpecId == Init /\ [][NextId]_vars

SpriteIdle ==
    /\ players = <<>>
    /\ rr = 0
    /\ nVibes = 0
    /\ vname = [v \in VibeIds |-> NoName]
    /\ value = [v \in VibeIds |-> 0]
    /\ lastActive = [v \in VibeIds |-> 0]
    /\ muted = [v \in VibeIds |-> FALSE]
    /\ conn = [v \in VibeIds |-> "closed"]
    /\ sent = [v \in VibeIds |-> {}]
    /\ nPings = 0
    /\ pings = [p \in PingIds |-> NoPing]
    /\ now = 0
    /\ last = Op("init", None, None, "done", 0)
    /\ rotLog = <<>>

\* A navigator made for some object: one set(), and the get() calls before
\* it and after it.
InitNav ==
    /\ TasksIdle
    /\ CallsIdle
    /\ AuraIdle
    /\ GaiaIdle
    /\ SpriteIdle
    /\ StoreIdle
    /\ root \in Roots
    /\ nlast = NoNavCall

NextNav ==
    \/ \E path \in Paths :
          /\ nlast.op = "none" \/ (nlast.op \in {"set", "set(false)"} /\ path = nlast.path)
          /\ get(path)
    \/ \E path \in Paths, val \in SetValues, createMissing \in BOOLEAN :
          /\ nlast.op = "none"
          /\ set(path, val, createMissing)

SpecNav == InitNav /\ [][NextNav]_vars

\* The Sprite and the probes of its unmuted Vibes: a ping() that times out
\* lowers the value of a Vibe between two calls of refreshVibes().  The clock
\* is followed while a ping() is pending.
NextProbe ==
    \/ \E name \in Callers, val \in CtorValues : AddVibe(name, val)
    \/ refreshVibes
    \/ \E v \in Range(players) : ~muted[v] /\ ping(v)
    \/ \E p \in PingIds : pingTimeout(p)
    \/ (\E p \in PingIds : pings[p].listening) /\ Tick

SpecProbe == Init /\ [][NextProbe]_vars

\* An OptionStore made for an empty object, and the calls on it.
NextStore ==
    \/ \E type \in Classes, key \in OptionKeys, val \in OptionValues :
          storeSet(type, key, val)
    \/ \E type \in Classes, key \in OptionKeys : storeGet(type, key)

SpecStore == Init /\ [][NextStore]_vars

\* The timers fire and every invocation ends: each tick of a started task
\* comes again and again.
FairTasks == \A t \in Tasks : WF_vars(ostinatoTick(t))
SpecTasksLive == SpecTasks /\ FairTasks

\* ----------------------------------------------------------------- claims
Held == Range(players)

\* The Vibes of the collection are all active, unmuted and of distinct values.
AllActiveUnmutedDistinct ==
    /\ \A v \in Held : isActive(v, Beat, now) /\ ~muted[v]
    /\ \A v, w \in Held : v # w => value[v] # value[w]

C2_InactiveIsClosedAndRemoved ==
    [][/\ refreshVibes =>
            \A v \in Held : lastActive[v] + Beat < now => conn'[v] # "open"
       /\ \A v \in VibeIds : onClose(v) => v \notin Range(players')
      ]_vars

\* The close event of a Vibe that refreshVibes() closed for inactivity has
\* been processed, and the Vibe is gone.
C2_Witness ==
    /\ last.op = "onClose"
    /\ last.result = "inactive socket"
    /\ last.vibe \notin Held

\* C3: when the pong of a ping() arrives, the value of the Vibe is minus the
\* time elapsed since the ping was sent: finite and not positive.
C3_ValueIsMinusElapsed ==
    (last.op = "message" /\ last.result = "matched") =>
        /\ value[last.vibe] = -(now - pings[last.ping].start)
        /\ value[last.vibe] <= 0
        /\ value[last.vibe] > NegInf

\* The pong of a ping() has arrived some time after the ping was sent.
C3_Witness ==
    /\ last.op = "message" /\ last.result = "matched"
    /\ now > pings[last.ping].start
    /\ value[last.vibe] < 0

ListenersTornDownOnce ==
    \A p \in 1..nPings :
        /\ pings[p].dereg <= 1
        /\ pings[p].listening <=> pings[p].st = "waiting"
        /\ pings[p].st \in {"matched", "failed", "timedOut"} => pings[p].dereg = 1
        /\ pings[p].st \in {"waiting", "sendFailed"} => pings[p].dereg = 0

\* C5: the listener of a ping() is deregistered exactly once, at the pong or
\* at the timeout, whichever is first; the pong of a ping() that timed out
\* changes neither the value of the Vibe nor any ping().
C5_ListenerOnceAndLatePongIgnored ==
    /\ []ListenersTornDownOnce
    /\ [][\A p \in 1..nPings, seen \in SUBSET PingIds :
            (/\ pings[p].st = "timedOut"
             /\ messageCue(1, Data("json", "pong", None, p, None), seen))
            => value' = value /\ pings' = pings
         ]_vars

\* The pong of a ping() that had timed out has arrived, while another ping()
\* of the same Vibe was pending, and the value is still minus infinity.
C5_Witness ==
    /\ last.op = "message" /\ last.result = "none"
    /\ last.ping \in 1..nPings
    /\ pings[last.ping].st = "timedOut"
    /\ pings[last.ping].dereg = 1
    /\ value[last.vibe] = NegInf
    /\ \E q \in 1..nPings : pings[q].st = "waiting"

\* C6: a message {type: "ping", id: X} without payload, as ping() of the peer
\* sends it, is answered at once by a message {type: "pong", pingId: X}.
C6_PingIsAnsweredByMatchingPong ==
    [][\A seen \in SUBSET PingIds :
            messageCue(1, Data("json", "ping", PeerPingId, None, None), seen)
            => pong(PeerPingId, None) \in sent'[1]
      ]_vars

\* C7 as amended: send() hands the message to the connection of the selected
\* Vibe if and only if that Vibe is unmuted and satisfies the predicate, and
\* then returns true unless the connection, no longer open, throws; a muted Vibe makes it
\* fail with its own error "Selected Vibe is muted", an unmuted Vibe that
\* fails the predicate with the caller's error, and in both cases nothing is
\* sent on any connection.
C7_SendOutcome ==
    [][\A msg \in AppPayloads, pred \in Predicates :
            (send(msg, pred) /\ Len(players) > 0) =>
            LET v == players[Selected]
            IN /\ last'.vibe = v
               /\ muted[v] =>
                    last'.result = "Error: Selected Vibe is muted" /\ sent' = sent
               /\ (~muted[v] /\ ~predicate(pred, v)) =>
                    last'.result = "onRejectError" /\ sent' = sent
               /\ (~muted[v] /\ predicate(pred, v) /\ conn[v] = "open") =>
                    /\ last'.result = "true"
                    /\ sent' = [sent EXCEPT ![v] = @ \cup {Msg("app", None, None, msg)}]
               /\ (~muted[v] /\ predicate(pred, v)) =>
                    \/ /\ last'.result = "true"
                       /\ Msg("app", None, None, msg) \in sent'[v]
                    \/ /\ last'.result = "TransportError"
                       /\ conn[v] # "open" /\ sent' = sent
      ]_vars

\* send() has selected a muted Vibe and failed with its own error.
C7_Witness ==
    /\ last.op = "send"
    /\ last.vibe \in Held /\ muted[last.vibe]
    /\ last.result = "Error: Selected Vibe is muted"

\* C7 as claimed, on an open connection: send() succeeds if and only if the selected Vibe is unmuted
\* and satisfies the predicate, and otherwise sends nothing and fails with the
\* caller's error.
C7_AsClaimed ==
    [][\A msg \in AppPayloads, pred \in Predicates :
            (send(msg, pred) /\ Len(players) > 0
                             /\ conn[players[Selected]] = "open") =>
            LET v == players[Selected]
            IN IF ~muted[v] /\ predicate(pred, v)
               THEN /\ last'.result = "true"
                    /\ Msg("app", None, None, msg) \in sent'[v]
               ELSE last'.result = "onRejectError" /\ sent' = sent
      ]_vars

\* C8: the send() calls made since the collection last changed select the
\* Vibes in rounds: any Len(players) consecutive calls select every Vibe of
\* the collection exactly once, and every round has the same order.
C8_RoundRobin ==
    LET m == Len(players)
    IN /\ \A i \in 1..Len(rotLog) : rotLog[i] \in Held
       /\ \A i, j \in 1..Len(rotLog) :
            (i < j /\ j - i < m) => rotLog[i] # rotLog[j]
       /\ \A i \in 1..Len(rotLog) :
            i + m <= Len(rotLog) => rotLog[i] = rotLog[i + m]

\* Two full rounds of send() over at least two Vibes, some calls failing.
C8_Witness ==
    /\ Len(players) >= 2
    /\ Len(rotLog) = 2 * Len(players)
    /\ last.op = "send" /\ last.result # "true"

\* C9: the close event of a connection removes exactly the Vibe that wraps it
\* from the collection; every other Vibe stays.
C9_CloseRemovesThatVibeOnly ==
    [][\A v \in VibeIds :
            onClose(v) => Range(players') = Held \ {v}
      ]_vars

\* C10: a well-formed POST to the endpoint merges the posted body into the
\* maps of the Gaia and answers 200 with a snapshot of the merged maps that
\* the query selects, so that a posted sprite is known afterwards and is in
\* the answer whenever it passes the filters.
C10_PostMergesAndAnswers ==
    [][\A req \in WellFormed :
            handleRequest(req) =>
                /\ res'.status = 200
                /\ \A k \in DOMAIN req.body.sprites :
                        k \in DOMAIN sprites' /\ sprites'[k] = req.body.sprites[k]
                /\ res'.img \in imgOfQuery(users', sprites', vibes', req.query)
      ]_vars

\* The maps of the Gaia, by name.
GaiaMaps == [users |-> users, sprites |-> sprites, vibes |-> vibes]

\* C11: Gaia.update(gaia, partial) sets every key of partial.users,
\* partial.sprites and partial.vibes to the value partial gives it, leaves every
\* other key with its value, and no step of the Gaia ever removes a key.
C11_UpdateMergesAndKeysOnlyGrow ==
    [][/\ \A partial \in Bodies : GaiaUpdate(partial) =>
            /\ gcall'.op = "update"
            /\ \A X \in {"users", "sprites", "vibes"} :
                LET old == GaiaMaps[X]
                    new == GaiaMaps'[X]
                IN /\ DOMAIN new = DOMAIN old \cup DOMAIN partial[X]
                   /\ \A k \in DOMAIN partial[X] : new[k] = partial[X][k]
                   /\ \A k \in DOMAIN old \ DOMAIN partial[X] : new[k] = old[k]
       /\ \A X \in {"users", "sprites", "vibes"} :
            DOMAIN GaiaMaps[X] \subseteq DOMAIN GaiaMaps'[X]
      ]_vars

\* An update has given a sprite that was known a new payload, has added a user
\* that was not known, and has left another sprite as it was.
C11_Witness ==
    /\ gcall.op = "update"
    /\ \E k \in DOMAIN gcall.body.sprites \cap DOMAIN gcall.before.sprites :
            /\ gcall.before.sprites[k] # gcall.body.sprites[k]
            /\ sprites[k] = gcall.body.sprites[k]
    /\ \E u \in DOMAIN gcall.body.users : u \notin DOMAIN gcall.before.users
    /\ \E k \in DOMAIN gcall.before.sprites \ DOMAIN gcall.body.sprites :
            sprites[k] = gcall.before.sprites[k]

\* C12: in every snapshot that gaia.img() returns, every source of the
\* returned vibes is a returned sprite, its list of targets is the whole list
\* the Gaia holds for it, and every returned sprite that has vibes in the Gaia
\* has them in the snapshot.
C12_VibesOfReturnedSprites ==
    gcall.op = "img" =>
        LET out == gcall.out
        IN /\ DOMAIN out.vibes \subseteq DOMAIN out.sprites
           /\ \A k \in DOMAIN out.vibes : out.vibes[k] = vibes[k]
           /\ \A k \in DOMAIN out.sprites \cap DOMAIN vibes : k \in DOMAIN out.vibes

\* A snapshot has left out a sprite that has vibes in the Gaia, and holds the
\* vibes of a returned sprite with a target that is not returned.
C12_Witness ==
    /\ gcall.op = "img"
    /\ \E k \in DOMAIN vibes \cap DOMAIN sprites : k \notin DOMAIN gcall.out.sprites
    /\ \E k \in DOMAIN gcall.out.vibes :
            \E i \in 1..Len(vibes[k]) : vibes[k][i] \notin DOMAIN gcall.out.sprites

\* The distance of a known sprite from the centre of a call.
DistFrom(args, k) == dist(<<args.long, args.lat>>, <<sprites[k].long, sprites[k].lat>>)

\* A call of img() with no filter but the circle, and no sample size.
OnlyGeo(args) ==
    /\ ~args.requireUrl
    /\ args.targets = NoTargets
    /\ args.n = NoNumber

\* C13: when the two coordinates of the centre and the radius are finite, the
\* candidates of gaia.img() are the known sprites at a distance from the centre
\* strictly less than the radius: a sprite at the centre is in for every
\* positive radius, a sprite one degree away (about 111 km) is in for a radius
\* of 150 km, out for 50 km and out for exactly its distance.
C13_StrictlyWithinRadius ==
    (/\ gcall.op = "img"
     /\ isFinite(gcall.args.long) /\ isFinite(gcall.args.lat)
     /\ isFinite(gcall.args.radius)) =>
        LET args == gcall.args
            got == DOMAIN gcall.out.sprites
        IN /\ \A k \in got : DistFrom(args, k) < args.radius
           /\ OnlyGeo(args) =>
                /\ got = {k \in DOMAIN sprites : DistFrom(args, k) < args.radius}
                /\ \A k \in DOMAIN sprites :
                    /\ (sprites[k].lat = args.lat /\ args.radius > 0) => k \in got
                    /\ (sprites[k].lat = args.lat + 1 /\ args.radius = 150000) => k \in got
                    /\ (sprites[k].lat = args.lat + 1 /\ args.radius = 50000) => k \notin got
                    /\ DistFrom(args, k) = args.radius => k \notin got

\* A snapshot within the radius that is exactly the distance of a known sprite:
\* that sprite is left out, a sprite at the centre is in.
C13_Witness ==
    /\ gcall.op = "img"
    /\ OnlyGeo(gcall.args)
    /\ isFinite(gcall.args.long) /\ isFinite(gcall.args.lat)
    /\ \E k \in DOMAIN sprites :
            /\ DistFrom(gcall.args, k) = gcall.args.radius
            /\ k \notin DOMAIN gcall.out.sprites
    /\ \E k \in DOMAIN gcall.out.sprites : DistFrom(gcall.args, k) = 0

\* A call of img() whose centre or radius is missing or not finite.
NoCircle(long, lat, radius) ==
    ~(isFinite(long) /\ isFinite(lat) /\ isFinite(Default(radius, Infinity)))

\* C14: when a coordinate of the centre or the radius is missing or not
\* finite, gaia.img() applies no geo filter: with no other filter it returns
\* every known sprite.  The same holds of a request whose query has no long.
C14_NoCircleNoFilter ==
    /\ (/\ gcall.op = "img"
        /\ NoCircle(gcall.args.long, gcall.args.lat, gcall.args.radius)
        /\ OnlyGeo(gcall.args))
       => DOMAIN gcall.out.sprites = DOMAIN sprites
    /\ \A q \in Queries :
        (/\ q.long = NoNumber
         /\ q.requireUrl \in {"", "false"}
         /\ q.targets = NoTargets
         /\ q.sample = NoNumber)
        => \A snap \in imgOfQuery(users, sprites, vibes, q) :
                DOMAIN snap.sprites = DOMAIN sprites

\* A call with a latitude and a radius of 50 km but no longitude has returned
\* a sprite one degree away.
C14_Witness ==
    /\ gcall.op = "img"
    /\ gcall.args.long = NoNumber /\ gcall.args.lat = 0 /\ gcall.args.radius = 50000
    /\ \E k \in DOMAIN gcall.out.sprites : sprites[k].lat = 1

\* The known sprite k has an outgoing vibe towards one of the targets: towards
\* a listed sprite id, or towards a sprite of a listed user.
Towards(k, targets) ==
    /\ k \in DOMAIN vibes
    /\ \E i \in 1..Len(vibes[k]) :
        \/ vibes[k][i] \in targets
        \/ parseId(vibes[k][i]).user \in targets

\* A call of img() with no filter but the targets, and no sample size.
OnlyTargets(args) ==
    /\ NoCircle(args.long, args.lat, args.radius)
    /\ ~args.requireUrl
    /\ args.n = NoNumber

\* C15: when targets is an array that is not empty, gaia.img() returns only
\* sprites with an outgoing vibe towards a listed sprite id or towards a sprite
\* of a listed user, and with no other filter all of them; when targets is
\* absent or is the empty array, no sprite is left out for its targets.
C15_OnlyTowardsTargets ==
    gcall.op = "img" =>
        LET args == gcall.args
            got == DOMAIN gcall.out.sprites
        IN IF args.targets # NoTargets /\ args.targets # {}
           THEN /\ \A k \in got : Towards(k, args.targets)
                /\ OnlyTargets(args) =>
                    got = {k \in DOMAIN sprites : Towards(k, args.targets)}
           ELSE OnlyTargets(args) => got = DOMAIN sprites

\* A snapshot for the targets [bob] with a sprite returned for a vibe towards
\* bob:main, while a known sprite with no vibes and another with vibes but none
\* towards bob are left out.
C15_Witness ==
    /\ gcall.op = "img"
    /\ gcall.args.targets = {Bob}
    /\ \E k \in DOMAIN gcall.out.sprites :
        /\ Towards(k, {Bob})
        /\ \A i \in 1..Len(vibes[k]) : vibes[k][i] \notin gcall.args.targets
    /\ \E k \in DOMAIN sprites \ DOMAIN vibes : k \notin DOMAIN gcall.out.sprites
    /\ \E k \in DOMAIN sprites \cap DOMAIN vibes : k \notin DOMAIN gcall.out.sprites

\* C15 as the specification states it: whenever targets is given, the empty
\* array included, only sprites with a vibe towards a target are returned.
C15_AsClaimed ==
    (gcall.op = "img" /\ gcall.args.targets # NoTargets) =>
        \A k \in DOMAIN gcall.out.sprites : Towards(k, gcall.args.targets)

\* The candidates of a call of img(): the entries that passed its filters.
Candidates(args) ==
    imgEntries(sprites, vibes, args.long, args.lat,
               Default(args.radius, Infinity), args.requireUrl, args.targets)

\* The sample sizes of the calls, and none.
SampleSizes == {0, 1, 2, Infinity}

\* C16: Gaia.sample(entries, n) gives the entries as they are when there are at
\* most n of them, and otherwise n draws, each of them one of the entries; so
\* a snapshot has at most n sprites, has every candidate when there are at most
\* n, and has candidates only.
C16_SampleBounds ==
    /\ \A n \in SampleSizes :
        LET entries == SetToSeq(DOMAIN sprites)
        IN \A draws \in sample(entries, n) :
            IF Len(entries) <= n
            THEN draws = entries
            ELSE /\ Len(draws) = n
                 /\ \A i \in 1..n : \E j \in 1..Len(entries) : draws[i] = entries[j]
    /\ gcall.op = "img" =>
        LET n == Default(gcall.args.n, Infinity)
            candidates == Range(Candidates(gcall.args))
            got == DOMAIN gcall.out.sprites
        IN /\ got \subseteq candidates
           /\ Cardinality(got) <= n
           /\ Cardinality(candidates) <= n => got = candidates

\* A snapshot of sample size 2 out of three candidates, which has one sprite:
\* the two draws took the same entry.
C16_Witness ==
    /\ gcall.op = "img"
    /\ gcall.args.n = 2
    /\ Cardinality(Range(Candidates(gcall.args))) = 3
    /\ Cardinality(DOMAIN gcall.out.sprites) = 1

C20_DeliveryIgnoresRegistration ==
    /\ alast.op = "handleConnection" =>
        (alast.attached <=>
            (alast.req.tokenOk /\ alast.req.id # NoId /\ alast.req.accept))
    /\ alast.op \in {"refreshGaiaImg", "feedVibes"} => alast.token = nodeToken

\* C21: when an invocation of a periodic task fails, the failure is notified
\* as an error, the task stays scheduled and the invocations of the other
\* tasks are as they were; and a later tick starts the task again.
C21_FailureReportedAndTaskGoesOn ==
    /\ [][\A t \in Tasks :
            ostinatoEnd(t, FALSE) =>
                /\ tlast'.diag = "error"
                /\ scheduled' = scheduled
                /\ \A u \in Tasks \ {t} : inflight'[u] = inflight[u]
         ]_vars
    /\ \A t \in Tasks :
        (tlast.op = "failed" /\ tlast.task = t)
            ~> (tlast.op = "start" /\ tlast.task = t)

\* An invocation of refresh has failed while one of feedVibes is in flight.
C21_Witness ==
    /\ tlast.op = "failed"
    /\ tlast.task = "refresh"
    /\ tlast.diag = "error"
    /\ "refresh" \in scheduled
    /\ inflight["feedVibes"] = 1

\* C22: no task has more than one invocation in flight: a tick starts one only
\* when none is in flight, and a tick that comes while one is in flight is
\* skipped and adds none.
C22_OneInvocationInFlight ==
    /\ \A t \in Tasks : inflight[t] <= 1
    /\ tlast.op \in {"start", "skip"} => inflight[tlast.task] = 1

\* A tick of feedVibes was skipped: the invocation before it is in flight.
C22_Witness ==
    /\ tlast.op = "skip"
    /\ tlast.task = "feedVibes"
    /\ inflight["feedVibes"] = 1

\* C23: a Node whose configuration lacks a complete token pair or a complete
\* self pair is not constructed: the constructor ends in a configuration
\* error and starts neither of its tasks.
C23_IncompleteConfigFails ==
    (~Complete(nodeOpts.token) \/ ~Complete(nodeOpts.self)) =>
        /\ built = "ConfigError"
        /\ scheduled \cap {"refreshToken", "refresh"} = {}

\* C24: a request to the endpoint that is not a POST, does not accept JSON,
\* or whose body or query cannot be parsed, is answered 400 with an error
\* message, and the maps of the Gaia are as before.
C24_MalformedAnswered400 ==
    [][\A req \in Malformed :
        (handleRequest(req) /\ req.url = "/gaia/img") =>
            /\ res'.status = 400
            /\ res'.error # ""
            /\ res'.img = EmptyImg
            /\ GaiaMaps' = GaiaMaps
      ]_vars

\* A Gaia that knows a sprite has answered 400.
C24_Witness ==
    /\ res.status = 400
    /\ sprites # EmptyMap


\* C25: isConnectedTo(targetId) answers true when a Vibe of the collection has
\* a peer id with the user part of targetId and targetId has no name part or
\* the same name part, and answers false otherwise, an empty collection
\* included; it never raises.
C25_ConnectedIffVibeMatches ==
    asked.op = "isConnectedTo" =>
        asked.out.result =
            IF connectedIn(HeldNames, asked.a) THEN "true" ELSE "false"

\* C26: for a user id and a name that are not empty and hold no separator,
\* parseId(id(user, name)) gives back the user id and the name; parseId of an
\* id that holds no separator gives that id as the user and no name.
C26_ParseIdInvertsId ==
    /\ (asked.op = "parseId(id)" /\ asked.a \in Plain /\ asked.b \in Plain) =>
           /\ asked.out.user = asked.a
           /\ asked.out.name = asked.b
    /\ (asked.op = "parseId" /\ asked.a \in Strs(Letters)) =>
           /\ asked.out.user = asked.a
           /\ asked.out.name = NoString
\* An id of two characters each way was built and parsed.
C26_Witness ==
    /\ asked.op = "parseId(id)"
    /\ asked.a \in Plain /\ Len(asked.a) = 2
    /\ asked.b \in Plain /\ Len(asked.b) = 2
    /\ asked.out.name = asked.b

\* C27: every open connection that a feed opened or was handed is wrapped by
\* a Vibe that is in the collection of the Sprite: none stays open without an
\* owner, neither a connection that was turned down nor the connection of a
\* Vibe that another Vibe replaced under the same id.
C27_OpenConnectionsAreOwned ==
    /\ ~unowned
    /\ \A v \in Created : conn[v] = "open" => v \in Range(players)

\* C28: a muted Vibe keeps processing what its connection receives, and each
\* message it receives sets lastActive to the time of receipt.
C28_MutedVibeTouchedByEachMessage ==
    [][\A v \in VibeIds, data \in PlainData :
          (messageCue(v, data, {}) /\ muted[v]) => lastActive'[v] = now
      ]_vars
\* C28, the part about removal: a muted Vibe of the collection that has
\* received nothing for longer than beat leaves the collection, unless a
\* message makes it active again.
C28_SilentMutedVibeRemoved ==
    \A v \in VibeIds :
        (v \in Range(players) /\ muted[v] /\ ~isActive(v, Beat, now))
            ~> (v \notin Range(players) \/ isActive(v, Beat, now))
\* A muted Vibe that was closed for inactivity has left the collection.
C28_RemovedWitness ==
    /\ last.op = "onClose"
    /\ last.result = "inactive socket"
    /\ nVibes = 2
    /\ Len(players) = 1

\* Whether neither of two key sequences begins with the other.
Apart(ks, qs) ==
    \E i \in 1..Len(ks) : i <= Len(qs) /\ ks[i] # qs[i]
                          /\ \A j \in 1..(i - 1) : ks[j] = qs[j]
KeySeqs == {q.items : q \in ArrayPaths}

\* What C29 says of a get(p) that follows a set(p, v) which returned: it
\* gives v, and the keys that are not on the path hold what they held.
GetGivesWhatWasSet ==
    /\ nlast'.out = nlast.val
    /\ \A qs \in KeySeqs :
          (Apart(normalizePath(nlast.path), qs)
           /\ getFrom(nlast.before, qs) \notin Throws) =>
              getFrom(root, qs) = getFrom(nlast.before, qs)

\* C29: for every path p, dot-separated or an array, and every value v, a
\* get(p) that follows a set(p, v) that returned gives v; set returns the
\* navigator and the keys that are not on the path hold what they held.
C29_SetThenGetReturnsValue ==
    [][(nlast.op = "set" /\ nlast.returned = "this"
        /\ nlast'.op = "get" /\ nlast'.path = nlast.path) =>
           GetGivesWhatWasSet
      ]_vars

\* Whether set() meets a primitive before the last key of the path.
Blocked(obj, ks) ==
    \E i \in 1..(Len(ks) - 1) : getFrom(obj, SubSeq(ks, 1, i)).t = "primitive"

\* C29 for the paths that have at least one key: set(p, v) returns the
\* navigator unless a key before the last holds a primitive, the get(p) that
\* follows gives v, and the keys that are not on the path hold what they held.
C29_SetThenGetOnKeys ==
    [][/\ (nlast'.op = "set" /\ ~Blocked(root, normalizePath(nlast'.path))) =>
              nlast'.returned = "this"
       /\ (nlast.op = "set" /\ nlast.returned = "this"
           /\ nlast'.op = "get" /\ nlast'.path = nlast.path
           /\ normalizePath(nlast.path) # <<>>) =>
              GetGivesWhatWasSet
      ]_vars
\* A set() through two missing objects was followed by a get() that gave the
\* value.
C29_RoundTripWitness ==
    /\ nlast.op = "get"
    /\ Len(normalizePath(nlast.path)) = 3
    /\ nlast.out = Prim(2)
    /\ getFrom(root, SubSeq(normalizePath(nlast.path), 1, 1)) # Undefined

\* C30: get(path) never throws and never changes the wrapped object; when the
\* path does not lead to a value, be it that a key is missing or that a
\* segment before the last holds a primitive or null, it returns undefined.
C30_GetNeverThrows ==
    nlast.op = "get" =>
        /\ nlast.returned = "value"
        /\ root = nlast.before

\* Whether a key of ks before the last is missing from the object it is
\* looked up in.
Missing(obj, ks) ==
    \E i \in 1..(Len(ks) - 1) : getFrom(obj, SubSeq(ks, 1, i)) = Undefined

\* C31: set(path, value, false) throws when a key before the last is missing,
\* set(path, value) throws when a key before the last holds a value that is
\* no object, and after a set() that threw the wrapped object is what it was
\* before the call.
C31_ThrowingSetLeavesObject ==
    nlast.op \in {"set", "set(false)"} =>
        LET ks == normalizePath(nlast.path)
        IN /\ (nlast.op = "set(false)" /\ Missing(nlast.before, ks)) =>
                  nlast.out = Thrown("Error: does not exist")
           /\ Blocked(nlast.before, ks) =>
                  nlast.out = Thrown("Error: is not an object")
           /\ nlast.returned = "thrown" => root = nlast.before
\* A set() through a primitive threw, on an object that holds other keys.
C31_Witness ==
    /\ nlast.op = "set"
    /\ nlast.out = Thrown("Error: is not an object")
    /\ Cardinality(DOMAIN root.f) = 2
    /\ root = nlast.before

\* The classes get(type, key) looks at, from type up.
RECURSIVE Chain(_)
Chain(type) ==
    IF type = NoClass THEN <<>> ELSE <<type>> \o Chain(getPrototypeOf(type))
\* The value last set for key on the nearest class of the chain of type that
\* has one.
Nearest(type, key) ==
    LET having == SelectSeq(Chain(type),
                            LAMBDA c : c \in Classes
                                       /\ lastSet[c][key] \notin {NoOption, NeverSet})
    IN IF having = <<>> THEN NoOption ELSE lastSet[having[1]][key]
\* Whether a class outside the chain of type bears the name of a class of
\* the chain and was given a value for key.
Namesake(type, key) ==
    \E c \in Range(Chain(type)), other \in Classes :
        /\ other \notin Range(Chain(type))
        /\ typeName(other) = typeName(c)
        /\ lastSet[other][key] # NeverSet

\* C32: get(type, key) returns the value last set for key on the nearest class
\* of the inheritance chain of type that has a value for key, and undefined
\* when no class of the chain has one.
C32_GetReturnsNearestClassValue ==
    olast.op = "get" => olast.out = Nearest(olast.type, olast.key)
\* C32 for classes whose names no other class with a value for the key bears.
C32_GetReturnsNearestNamedValue ==
    (olast.op = "get" /\ ~Namesake(olast.type, olast.key)) =>
        olast.out = Nearest(olast.type, olast.key)
\* Derived has its own color and takes its size from Base.
C32_Witness ==
    /\ olast = StoreCall("get", "Derived", "size", NoOption, "blue")
    /\ lastSet["Derived"]["color"] = "red"
    /\ lastSet["Derived"]["size"] = NeverSet
    /\ lastSet["Base"]["size"] = "blue"

\* C33: after a refreshVibes() at most Connectivity Vibes of the collection
\* are unmuted, whatever their values, equal values included.
C33_AtMostConnectivityUnmuted ==
    [][refreshVibes =>
          Cardinality({v \in Held : ~muted'[v]}) <= Connectivity
      ]_vars

\* C34: a refreshVibes() that finds no more than Connectivity active Vibes in
\* the collection mutes no Vibe: the Vibes it closes for inactivity are not
\* counted and not ranked.
C34_InactiveNotRanked ==
    [][(refreshVibes
        /\ Cardinality({v \in Held : isActive(v, Beat, now)}) <= Connectivity)
       => muted' = muted
      ]_vars

\* C35: every message a connection receives sets lastActive of its Vibe to
\* the time of receipt, whatever the message holds.
C35_EveryMessageIsActivity ==
    [][\A v \in VibeIds, data \in PlainData :
          messageCue(v, data, {}) => lastActive'[v] = now
      ]_vars

\* The Vibes of the collection that are active and, in `m`, unmuted.
UnmutedActive(m) == {v \in Held : ~m[v] /\ isActive(v, Beat, now)}
Min(a, b) == IF a <= b THEN a ELSE b

\* C37: a refreshVibes() on a collection of active Vibes leaves at least
\* min(Connectivity, n) of them unmuted, n being the number that were unmuted
\* before the call: a Vibe that is muted does not take a slot of the top
\* Connectivity.
C37_MutedTakeNoSlot ==
    [][(refreshVibes /\ \A v \in Held : isActive(v, Beat, now)) =>
          Cardinality(UnmutedActive(muted')) >=
              Min(Connectivity, Cardinality(UnmutedActive(muted)))
      ]_vars

\* Whether every key of the map `part` is a key of `whole` with that value.
Within(part, whole) ==
    \A k \in DOMAIN part : k \in DOMAIN whole /\ part[k] = whole[k]

\* C36: gaia.img() changes none of the maps of the Gaia, whatever its
\* arguments, and every user, sprite and list of targets in the snapshot it
\* returns is held by the Gaia under the same key with the same value.
C36_ImgIsReadOnlyProjection ==
    gcall.op = "img" =>
        /\ [users |-> users, sprites |-> sprites, vibes |-> vibes] = gcall.before
        /\ Within(gcall.out.users, users)
        /\ Within(gcall.out.sprites, sprites)
        /\ Within(gcall.out.vibes, vibes)
\* A snapshot that holds a user, a sprite and a list of targets, and leaves
\* out a sprite the Gaia knows.
C36_Witness ==
    /\ gcall.op = "img"
    /\ gcall.out.users # EmptyMap
    /\ gcall.out.vibes # EmptyMap
    /\ DOMAIN gcall.out.sprites # {}
    /\ DOMAIN gcall.out.sprites # DOMAIN sprites

C40_TicksKeepEndpoints ==
    /\ []("refreshToken" \in scheduled => nodeOpts.token.url)
    /\ []("refresh" \in scheduled => nodeOpts.self.url)
    /\ [][tlast'.op = "threw" => nodeToken' = nodeToken /\ nodeOpts' = nodeOpts]_vars
====
